---------------------------- MODULE Spec2Model ----------------------------
(***************************************************************************)
(* Model of the job-application email tracker.                             *)
(*                                                                         *)
(* The classification engine (email_classifier.py) is a pure function of   *)
(* a message record and of static rule tables.  A Python string is         *)
(* modelled as a text: a set of fragments taken from a fixed vocabulary    *)
(* (Phrases, and the sender strings of Senders).  re.search(p, s) is the   *)
(* table HitsTable, which lists for every lower-cased fragment the rules   *)
(* of the source whose regular expression matches it; a text matches a     *)
(* rule when one of its fragments does.  The fragments are chosen so that  *)
(* no rule matches across the boundary of two fragments.  Confidences are  *)
(* hundredths (0.95 is 95).                                                *)
(***************************************************************************)
EXTENDS Integers, Sequences, FiniteSets, TLC

VARIABLES
    email,        \* the message record handed to classify_email
    result,       \* the Classification Result returned, NoResult before the call
    ranked,       \* the local list `results` of classify_email after its sort
    pc,           \* position of the single-record caller
    batch,        \* the list handed to classify_emails (its dicts are updated in place)
    orig,         \* the batch as it was fetched (history, for comparison)
    classified,   \* the list classify_emails returned
    previous,     \* what the previous call of classify_emails returned (history)
    calls,        \* number of classify_emails calls made
    bpc,          \* position of the batch caller
    db,           \* the emails table: a function from id to row
    now,          \* the clock datetime.utcnow() reads
    dbop,         \* the call of database.py made last
    spc,          \* position of the scan
    kind,         \* the scan running: manual (/api/scan) or auto (_run_auto_scan)
    raw,          \* the scan's list of records: raw_emails, then classified
    idx,          \* number of records of the list the scan has upserted
    report,       \* what the scan reports: the response, or auto_scan_status['last_result']
    erred,        \* the errors that occurred during the scan (the ones printed or raised)
    snapshot,     \* the emails table as it was when the scan started (history)
    scans,        \* number of scans started
    auto_scan_status, \* app.py's dict: last_scan, next_scan, last_result, is_running
    timers,       \* number of started threading.Timer objects that have not fired
    procs,        \* two scans running at once: position and locals of each
    fetch         \* a call of fetch_emails: its position, argument and locals

vars == <<email, result, ranked, pc, batch, orig, classified, previous, calls, bpc,
          db, now, dbop, spc, kind, raw, idx, report, erred, snapshot, scans,
          auto_scan_status, timers, procs, fetch>>
classifierVars == <<email, result, ranked, pc>>
batchVars == <<batch, orig, classified, previous, calls, bpc>>
dbVars == <<db, now, dbop>>
scanVars == <<spc, kind, raw, idx, report, erred, snapshot, scans, auto_scan_status,
              timers, procs, fetch>>
scanLocals == <<spc, kind, raw, idx, report, erred, scans>>
schedVars == <<auto_scan_status, timers>>

---------------------------------------------------------------------------
(* Bounds of the model. *)

\* A message record holds at most MaxPhrases vocabulary phrases in
\* subject, snippet and body together.
MaxPhrases == 2

\* A batch handed to classify_emails holds at most MaxBatch records.
MaxBatch == 3

\* The same messages are fetched and classified at most MaxCalls times.
MaxCalls == 2

\* upsert_email is called at most MaxUpserts times on its own.
MaxUpserts == 3

\* At most MaxScans scans are started.
MaxScans == 2

\* fetch_emails is called with max_results in 0..MaxResults.
MaxResults == 4

\* The largest page fetch_emails asks for (100 in the code), scaled down.
PageCap == 2

\* The chain of page tokens of the provider holds at most MaxPages pages.
MaxPages == 3

---------------------------------------------------------------------------
(* Vocabulary: the strings message records are built from. *)

Phrases ==
  << "Thank you for your application",
     "Your application for the Data Analyst position",
     "We will not be moving forward",
     "The position has been filled",
     "Your interview is scheduled",
     "Thanks for applying, your interview is scheduled",
     "Powered by HireVue",
     "Online Assessment",
     "Click the link below",
     "We are pleased to offer you the job",
     "Please review your offer letter",
     "An update on your application",
     "I came across your profile",
     "Company Newsletter",
     "Here is our quarterly earnings report" >>

PhraseSet == {Phrases[i] : i \in DOMAIN Phrases}

\* Further subject and body texts, for the metadata extractors: job titles
\* of 3, 14, 15 and 80 characters and a company name in the subject.
MetaPhrases ==
  << "Role: Dev, remote",
     "Job: Data Scientist, full time",
     "Opening: Senior Principal Staff Software Engineer for Distributed Data Platform Stability, on site",
     "Interview for the Senior Engineer role",
     "News from Acme Corp - hiring now" >>

MetaPhraseSet == {Phrases[2]} \cup {MetaPhrases[i] : i \in DOMAIN MetaPhrases}

AllPhrases == Phrases \o MetaPhrases

\* The sender fields as email_fetcher derives them from the From header.
Senders ==
  { [sender |-> "Company Recruiting <recruiter@company.com>",
     sender_email |-> "recruiter@company.com",
     sender_domain |-> "company.com", sender_name |-> "Company Recruiting"],
    [sender |-> "noreply@company.com", sender_email |-> "noreply@company.com",
     sender_domain |-> "company.com", sender_name |-> "noreply"],
    [sender |-> "RandomCorp News <newsletter@randomcorp.com>",
     sender_email |-> "newsletter@randomcorp.com",
     sender_domain |-> "randomcorp.com", sender_name |-> "RandomCorp News"],
    [sender |-> "Rexpand <team@rexpand.com>", sender_email |-> "team@rexpand.com",
     sender_domain |-> "rexpand.com", sender_name |-> "Rexpand"],
    [sender |-> "HireVue <noreply@hirevue.com>", sender_email |-> "noreply@hirevue.com",
     sender_domain |-> "hirevue.com", sender_name |-> "HireVue"],
    [sender |-> "noreply@indeed.com", sender_email |-> "noreply@indeed.com",
     sender_domain |-> "indeed.com", sender_name |-> "noreply"],
    [sender |-> "Rexpand <jobs@hirevue.com>", sender_email |-> "jobs@hirevue.com",
     sender_domain |-> "hirevue.com", sender_name |-> "Rexpand"] }

\* Senders for the metadata extractors: a display name that names the
\* company, placeholder and one-letter names, a job-board domain and a
\* sub-domain of it, two webmail domains.
MetaSenders ==
  { [sender |-> "Company Recruiting <recruiter@company.com>", sender_email |-> "recruiter@company.com",
     sender_domain |-> "company.com", sender_name |-> "Company Recruiting"],
    [sender |-> "noreply@indeed.com", sender_email |-> "noreply@indeed.com",
     sender_domain |-> "indeed.com", sender_name |-> "noreply"],
    [sender |-> "noreply@company.com", sender_email |-> "noreply@company.com",
     sender_domain |-> "company.com", sender_name |-> "noreply"],
    [sender |-> "noreply@mail.indeed.com", sender_email |-> "noreply@mail.indeed.com",
     sender_domain |-> "mail.indeed.com", sender_name |-> "noreply"],
    [sender |-> "J <jane@icloud.com>", sender_email |-> "jane@icloud.com",
     sender_domain |-> "icloud.com", sender_name |-> "J"],
    [sender |-> "J <jane@gmail.com>", sender_email |-> "jane@gmail.com",
     sender_domain |-> "gmail.com", sender_name |-> "J"] }

\* str.lower() on the strings of the vocabulary.
LowerTable ==
  "" :> "" @@
  "An update on your application" :> "an update on your application" @@
  "Click the link below" :> "click the link below" @@
  "Company Newsletter" :> "company newsletter" @@
  "Company Recruiting <recruiter@company.com>" :> "company recruiting <recruiter@company.com>" @@
  "Here is our quarterly earnings report" :> "here is our quarterly earnings report" @@
  "HireVue <noreply@hirevue.com>" :> "hirevue <noreply@hirevue.com>" @@
  "I came across your profile" :> "i came across your profile" @@
  "Online Assessment" :> "online assessment" @@
  "Please review your offer letter" :> "please review your offer letter" @@
  "Powered by HireVue" :> "powered by hirevue" @@
  "RandomCorp News <newsletter@randomcorp.com>" :> "randomcorp news <newsletter@randomcorp.com>" @@
  "Rexpand <team@rexpand.com>" :> "rexpand <team@rexpand.com>" @@
  "Thank you for your application" :> "thank you for your application" @@
  "The position has been filled" :> "the position has been filled" @@
  "We are pleased to offer you the job" :> "we are pleased to offer you the job" @@
  "We will not be moving forward" :> "we will not be moving forward" @@
  "Your application for the Data Analyst position" :> "your application for the data analyst position" @@
  "Your interview is scheduled" :> "your interview is scheduled" @@
  "company.com" :> "company.com" @@
  "hirevue.com" :> "hirevue.com" @@
  "indeed.com" :> "indeed.com" @@
  "newsletter@randomcorp.com" :> "newsletter@randomcorp.com" @@
  "noreply@company.com" :> "noreply@company.com" @@
  "noreply@hirevue.com" :> "noreply@hirevue.com" @@
  "noreply@indeed.com" :> "noreply@indeed.com" @@
  "randomcorp.com" :> "randomcorp.com" @@
  "recruiter@company.com" :> "recruiter@company.com" @@
  "rexpand.com" :> "rexpand.com" @@
  "team@rexpand.com" :> "team@rexpand.com" @@
  "Company Recruiting" :> "company recruiting" @@
  "Company" :> "company" @@
  "noreply" :> "noreply" @@
  "RandomCorp News" :> "randomcorp news" @@
  "Rexpand" :> "rexpand" @@
  "HireVue" :> "hirevue" @@
  "an update on your application" :> "an update on your application" @@
  "click the link below" :> "click the link below" @@
  "company newsletter" :> "company newsletter" @@
  "here is our quarterly earnings report" :> "here is our quarterly earnings report" @@
  "i came across your profile" :> "i came across your profile" @@
  "online assessment" :> "online assessment" @@
  "please review your offer letter" :> "please review your offer letter" @@
  "powered by hirevue" :> "powered by hirevue" @@
  "thank you for your application" :> "thank you for your application" @@
  "the position has been filled" :> "the position has been filled" @@
  "we are pleased to offer you the job" :> "we are pleased to offer you the job" @@
  "we will not be moving forward" :> "we will not be moving forward" @@
  "your application for the data analyst position" :> "your application for the data analyst position" @@
  "your interview is scheduled" :> "your interview is scheduled" @@
  "Thanks for applying, your interview is scheduled" :>
      "thanks for applying, your interview is scheduled" @@
  "thanks for applying, your interview is scheduled" :>
      "thanks for applying, your interview is scheduled" @@
  "Rexpand <jobs@hirevue.com>" :> "rexpand <jobs@hirevue.com>" @@
  "jobs@hirevue.com" :> "jobs@hirevue.com" @@
  "Interview for the Senior Engineer role" :> "interview for the senior engineer role" @@
  "J" :> "j" @@
  "J <jane@gmail.com>" :> "j <jane@gmail.com>" @@
  "J <jane@icloud.com>" :> "j <jane@icloud.com>" @@
  "Job: Data Scientist, full time" :> "job: data scientist, full time" @@
  "News from Acme Corp - hiring now" :> "news from acme corp - hiring now" @@
  "Opening: Senior Principal Staff Software Engineer for Distributed Data Platform Stability, on site" :> "opening: senior principal staff software engineer for distributed data platform stability, on site" @@
  "Role: Dev, remote" :> "role: dev, remote" @@
  "company recruiting" :> "company recruiting" @@
  "company recruiting <recruiter@company.com>" :> "company recruiting <recruiter@company.com>" @@
  "gmail.com" :> "gmail.com" @@
  "icloud.com" :> "icloud.com" @@
  "interview for the senior engineer role" :> "interview for the senior engineer role" @@
  "j" :> "j" @@
  "j <jane@gmail.com>" :> "j <jane@gmail.com>" @@
  "j <jane@icloud.com>" :> "j <jane@icloud.com>" @@
  "jane@gmail.com" :> "jane@gmail.com" @@
  "jane@icloud.com" :> "jane@icloud.com" @@
  "job: data scientist, full time" :> "job: data scientist, full time" @@
  "mail.indeed.com" :> "mail.indeed.com" @@
  "news from acme corp - hiring now" :> "news from acme corp - hiring now" @@
  "noreply@mail.indeed.com" :> "noreply@mail.indeed.com" @@
  "opening: senior principal staff software engineer for distributed data platform stability, on site" :> "opening: senior principal staff software engineer for distributed data platform stability, on site" @@
  "role: dev, remote" :> "role: dev, remote"

\* re.search(pattern, s, re.IGNORECASE): the rules of the source whose
\* regular expression matches the lower-cased string s.  A rule is named by
\* its table and its position in it (REJ_2 is REJECTION_PATTERNS[2]).
HitsTable ==
  "" :> {} @@
  "an update on your application" :> {"FUP_2", "FUP_7"} @@
  "click the link below" :> {"ACT_2"} @@
  "company newsletter" :> {"NSUB_11"} @@
  "company recruiting <recruiter@company.com>" :> {} @@
  "company.com" :> {} @@
  "here is our quarterly earnings report" :> {} @@
  "hirevue <noreply@hirevue.com>" :> {"T1_17", "KW_12", "NOREPLY_1", "NOREPLY_2"} @@
  "hirevue.com" :> {"KW_12"} @@
  "i came across your profile" :> {"DIR_1"} @@
  "indeed.com" :> {} @@
  "newsletter@randomcorp.com" :> {"NSUB_11", "NSND_22"} @@
  "noreply@company.com" :> {"NOREPLY_1", "NOREPLY_2"} @@
  "noreply@hirevue.com" :> {"T1_17", "KW_12", "NOREPLY_1", "NOREPLY_2"} @@
  "noreply@indeed.com" :> {"NOREPLY_1", "NOREPLY_2"} @@
  "online assessment" :> {"KW_13"} @@
  "please review your offer letter" :> {"OFF_6"} @@
  "powered by hirevue" :> {"T1_16", "KW_12"} @@
  "randomcorp news <newsletter@randomcorp.com>" :> {"NSUB_11", "NSND_22"} @@
  "randomcorp.com" :> {} @@
  "recruiter@company.com" :> {} @@
  "rexpand <team@rexpand.com>" :> {"OVR_1"} @@
  "rexpand.com" :> {"OVR_1"} @@
  "team@rexpand.com" :> {"OVR_1"} @@
  "thank you for your application" :> {"APP_1", "SAPP_1"} @@
  "the position has been filled" :> {"REJ_11"} @@
  "we are pleased to offer you the job" :> {"OFF_1"} @@
  "we will not be moving forward" :> {"REJ_2"} @@
  "your application for the data analyst position" :> {"APP_5"} @@
  "your interview is scheduled" :> {"T1_4"} @@
  "thanks for applying, your interview is scheduled" :> {"T1_4", "APP_1", "SAPP_1"} @@
  "rexpand <jobs@hirevue.com>" :> {"T1_17", "KW_12", "OVR_1"} @@
  "jobs@hirevue.com" :> {"T1_17", "KW_12"} @@
  "company recruiting" :> {} @@
  "gmail.com" :> {} @@
  "icloud.com" :> {} @@
  "interview for the senior engineer role" :> {} @@
  "j" :> {} @@
  "j <jane@gmail.com>" :> {} @@
  "j <jane@icloud.com>" :> {} @@
  "jane@gmail.com" :> {} @@
  "jane@icloud.com" :> {} @@
  "job: data scientist, full time" :> {} @@
  "mail.indeed.com" :> {} @@
  "news from acme corp - hiring now" :> {} @@
  "noreply" :> {"NOREPLY_1", "NOREPLY_2"} @@
  "noreply@mail.indeed.com" :> {"NOREPLY_1", "NOREPLY_2"} @@
  "opening: senior principal staff software engineer for distributed data platform stability, on site" :> {} @@
  "role: dev, remote" :> {}

---------------------------------------------------------------------------
(* Rule tables of email_classifier.py: <<rule, confidence in hundredths>>. *)

REJECTION_PATTERNS ==
  << <<"REJ_1", 95>>, <<"REJ_2", 95>>, <<"REJ_3", 93>>, <<"REJ_4", 93>>,
     <<"REJ_5", 92>>, <<"REJ_6", 92>>, <<"REJ_7", 90>>, <<"REJ_8", 90>>,
     <<"REJ_9", 90>>, <<"REJ_10", 90>>, <<"REJ_11", 88>>, <<"REJ_12", 88>>,
     <<"REJ_13", 88>>, <<"REJ_14", 82>>, <<"REJ_15", 85>>, <<"REJ_16", 85>>,
     <<"REJ_17", 88>>, <<"REJ_18", 85>>, <<"REJ_19", 85>>, <<"REJ_20", 80>>,
     <<"REJ_21", 92>> >>

OFFER_PATTERNS ==
  << <<"OFF_1", 98>>, <<"OFF_2", 98>>, <<"OFF_3", 97>>, <<"OFF_4", 96>>,
     <<"OFF_5", 96>>, <<"OFF_6", 95>>, <<"OFF_7", 92>> >>

FOLLOWUP_PATTERNS ==
  << <<"FUP_1", 88>>, <<"FUP_2", 88>>, <<"FUP_3", 85>>, <<"FUP_4", 85>>,
     <<"FUP_5", 82>>, <<"FUP_6", 82>>, <<"FUP_7", 80>> >>

APPLIED_PATTERNS ==
  << <<"APP_1", 92>>, <<"APP_2", 94>>, <<"APP_3", 94>>, <<"APP_4", 92>>,
     <<"APP_5", 85>>, <<"APP_6", 82>>, <<"APP_7", 92>>, <<"APP_8", 90>>,
     <<"APP_9", 88>>, <<"APP_10", 88>>, <<"APP_11", 94>>, <<"APP_12", 85>>,
     <<"APP_13", 90>>, <<"APP_14", 88>> >>

DIRECT_OUTREACH_PATTERNS ==
  << <<"DIR_1", 92>>, <<"DIR_2", 92>>, <<"DIR_3", 90>>, <<"DIR_4", 93>>,
     <<"DIR_5", 90>>, <<"DIR_6", 90>>, <<"DIR_7", 88>>, <<"DIR_8", 85>>,
     <<"DIR_9", 90>>, <<"DIR_10", 92>>, <<"DIR_11", 88>>, <<"DIR_12", 88>>,
     <<"DIR_13", 88>> >>

INTERVIEW_TIER1_PATTERNS ==
  << "T1_1", "T1_2", "T1_3", "T1_4", "T1_5", "T1_6", "T1_7", "T1_8", "T1_9",
     "T1_10", "T1_11", "T1_12", "T1_13", "T1_14", "T1_15", "T1_16", "T1_17" >>

INTERVIEW_TIER2_KEYWORDS ==
  << "KW_1", "KW_2", "KW_3", "KW_4", "KW_5", "KW_6", "KW_7", "KW_8", "KW_9",
     "KW_10", "KW_11", "KW_12", "KW_13", "KW_14", "KW_15", "KW_16", "KW_17" >>

INTERVIEW_ACTION_SIGNALS ==
  << "ACT_1", "ACT_2", "ACT_3", "ACT_4", "ACT_5", "ACT_6", "ACT_7", "ACT_8",
     "ACT_9", "ACT_10" >>

NOREPLY_PATTERNS ==
  << "NOREPLY_1", "NOREPLY_2", "NOREPLY_3", "NOREPLY_4", "NOREPLY_5",
     "NOREPLY_6", "NOREPLY_7" >>

DIRECT_OVERRIDE_SENDERS == << "OVR_1" >>

JOB_BOARD_DOMAINS ==
  { "indeed.com", "linkedin.com", "greenhouse.io", "lever.co",
    "myworkday.com", "myworkdayjobs.com", "workday.com",
    "smartrecruiters.com", "icims.com", "jobvite.com",
    "applytojob.com", "ashbyhq.com", "breezy.hr",
    "recruitee.com", "jazz.co", "bamboohr.com",
    "taleo.net", "successfactors.com", "hirevue.com" }

INTERVIEW_PLATFORM_DOMAINS ==
  { "hirevue.com", "sparkhire.com", "hireflix.com", "karat.com", "pymetrics.com" }

NOISE_SENDER_PATTERNS == [i \in 1..38 |-> "NSND_" \o ToString(i)]

NOISE_SUBJECT_PATTERNS == [i \in 1..21 |-> "NSUB_" \o ToString(i)]

SUBJECT_APPLIED_PATTERNS ==
  << "SAPP_1", "SAPP_2", "SAPP_3", "SAPP_4", "SAPP_5", "SAPP_6" >>

---------------------------------------------------------------------------
(* Strings, texts and pattern matching. *)

\* Python's None as the value of a string field: a field that holds a
\* text holds the text {None}, a field that holds one string holds None.
None == "None"

TextFields == {"subject", "snippet", "body_text"}

NullOf(key) == IF key \in TextFields THEN {None} ELSE None

\* d[key] is None
IsNull(d, key) == key \in DOMAIN d /\ d[key] = NullOf(key)

\* `if s:` on a string or None
Truthy(s) == s # "" /\ s # None

\* dict.get(key, default)
Get(d, key, default) == IF key \in DOMAIN d THEN d[key] ELSE default

\* str.lower()
Lower(s) == LowerTable[s]

\* str.lower() on a text (a set of fragments)
LowerText(T) == {Lower(s) : s \in T}

\* re.search(pattern, s, re.IGNORECASE) on one lower-cased string
re_search(p, s) == p \in HitsTable[s]

\* re.search(pattern, text, re.IGNORECASE) on a text
SearchText(p, T) == \E s \in T : re_search(p, s)

\* any(re.search(p, text, re.IGNORECASE) for p in patterns)
AnyMatch(patterns, T) == \E i \in DOMAIN patterns : SearchText(patterns[i], T)

\* Position of a fragment in its text: the fragments of a field stand in
\* the order of Phrases.
PhrasePos(s) == CHOOSE i \in DOMAIN AllPhrases : Lower(AllPhrases[i]) = Lower(s)

---------------------------------------------------------------------------
(* email_classifier.py: the sender trust predicates. *)

_is_automated_sender(sender_email) ==
    \E i \in DOMAIN NOREPLY_PATTERNS : re_search(NOREPLY_PATTERNS[i], sender_email)

PERSONAL_DOMAINS_DIRECT ==
    {"gmail.com", "yahoo.com", "hotmail.com", "outlook.com", "aol.com", "icloud.com"}

\* The domains of the vocabulary that are a suffix of a sender domain
\* (str.endswith): the domain itself and the job-board domains it ends with.
SuffixTable ==
  "company.com" :> {"company.com"} @@
  "gmail.com" :> {"gmail.com"} @@
  "hirevue.com" :> {"hirevue.com"} @@
  "icloud.com" :> {"icloud.com"} @@
  "indeed.com" :> {"indeed.com"} @@
  "mail.indeed.com" :> {"indeed.com", "mail.indeed.com"} @@
  "randomcorp.com" :> {"randomcorp.com"} @@
  "rexpand.com" :> {"rexpand.com"}

EndsWith(s, suffix) == suffix \in SuffixTable[s]

_is_direct_company_email(sender_email, sender_domain) ==
    IF sender_domain = "" THEN FALSE
    ELSE IF \E d \in JOB_BOARD_DOMAINS : EndsWith(sender_domain, d) THEN FALSE
    ELSE IF \E i \in DOMAIN NOREPLY_PATTERNS :
                re_search(NOREPLY_PATTERNS[i], Lower(sender_email)) THEN FALSE
    ELSE IF sender_domain \in PERSONAL_DOMAINS_DIRECT THEN FALSE
    ELSE TRUE

---------------------------------------------------------------------------
(* email_classifier.py: metadata extraction. *)

\* len(s) for the strings the extractors measure.
StrLenTable ==
  "" :> 0 @@ "Company" :> 7 @@ "noreply" :> 7 @@ "RandomCorp News" :> 15 @@
  "Rexpand" :> 7 @@ "HireVue" :> 7 @@ "data analyst" :> 12 @@
  "J" :> 1 @@
  "data scientist" :> 14 @@
  "dev" :> 3 @@
  "senior engineer" :> 15 @@
  "senior principal staff software engineer for distributed data platform stability" :> 80

StrLen(s) == StrLenTable[s]

\* The sender name after the nine suffixes are removed and the quotes and
\* blanks stripped (lines 455-459).
StripSuffixTable ==
  "" :> "" @@ "Company Recruiting" :> "Company" @@ "noreply" :> "noreply" @@
  "RandomCorp News" :> "RandomCorp News" @@ "Rexpand" :> "Rexpand" @@
  "HireVue" :> "HireVue" @@
  "J" :> "J" @@
  "J" :> "J"

\* sender_domain.split('.')[0].capitalize()
DomainLabelTable ==
  "company.com" :> "Company" @@ "randomcorp.com" :> "Randomcorp" @@
  "rexpand.com" :> "Rexpand" @@ "hirevue.com" :> "Hirevue" @@
  "indeed.com" :> "Indeed" @@
  "gmail.com" :> "Gmail" @@
  "icloud.com" :> "Icloud" @@
  "mail.indeed.com" :> "Mail"

\* The two subject patterns of _extract_company_name (case-sensitive, on
\* the subject as received): <<pattern, match.group(1).strip()>>.
CompanyCaptureTable ==
  "The position has been filled" :> {<<2, "The position">>} @@
  "Your interview is scheduled" :> {<<2, "Your interview">>} @@
  "Here is our quarterly earnings report" :> {<<2, "Here">>} @@
  "News from Acme Corp - hiring now" :> {<<1, "Acme Corp">>}

\* The five patterns of _extract_job_title on the lower-cased text:
\* <<pattern, group(1) stripped and whitespace-collapsed>>.
TitleCaptureTable ==
  "your application for the data analyst position" :> {<<3, "data analyst">>} @@
  "role: dev, remote" :> {<<1, "dev">>} @@
  "job: data scientist, full time" :> {<<1, "data scientist">>} @@
  "opening: senior principal staff software engineer for distributed data platform stability, on site" :> {<<1, "senior principal staff software engineer for distributed data platform stability">>} @@
  "interview for the senior engineer role" :> {<<4, "senior engineer">>}

Captures(table, s) == IF s \in DOMAIN table THEN table[s] ELSE {}

\* re.search(pattern j, text): the capture of the leftmost match, "" for
\* no match.  The fragments of T stand in the order of Phrases.
FirstCapture(table, j, T) ==
    LET hit == {s \in T : \E c \in Captures(table, s) : c[1] = j}
    IN  IF hit = {} THEN ""
        ELSE LET first == CHOOSE s \in hit : \A t \in hit : PhrasePos(s) <= PhrasePos(t)
             IN  (CHOOSE c \in Captures(table, first) : c[1] = j)[2]

PERSONAL_DOMAINS_COMPANY ==
    {"gmail.com", "yahoo.com", "hotmail.com", "outlook.com", "aol.com"}

NOREPLY_PLACEHOLDERS == {"no reply", "noreply", "do not reply"}

_extract_company_name(email_data) ==
    LET sender_name   == Get(email_data, "sender_name", "")
        sender_domain == Get(email_data, "sender_domain", "")
        subject       == Get(email_data, "subject", {})
        name          == StripSuffixTable[sender_name]
        byPattern1    == FirstCapture(CompanyCaptureTable, 1, subject)
        byPattern2    == FirstCapture(CompanyCaptureTable, 2, subject)
    IN  IF /\ Truthy(sender_name)
           /\ name # "" /\ StrLen(name) > 1
           /\ Lower(name) \notin NOREPLY_PLACEHOLDERS
        THEN name
        ELSE IF /\ sender_domain # ""
                /\ sender_domain \notin JOB_BOARD_DOMAINS
                /\ sender_domain \notin PERSONAL_DOMAINS_COMPANY
        THEN DomainLabelTable[sender_domain]
        ELSE IF byPattern1 # "" THEN byPattern1
        ELSE IF byPattern2 # "" THEN byPattern2
        ELSE ""

\* A length check that accepts a title of three characters.
RECURSIVE TitleFrom_accepts_three(_, _, _)
TitleFrom_accepts_three(j, subject, body) ==
    IF j > 5 THEN ""
    ELSE LET inSubject == FirstCapture(TitleCaptureTable, j, subject)
             title     == IF inSubject # "" THEN inSubject
                          ELSE FirstCapture(TitleCaptureTable, j, body)
         IN  IF title # "" /\ 3 <= StrLen(title) /\ StrLen(title) < 80
             THEN title
             ELSE TitleFrom_accepts_three(j + 1, subject, body)

\* text = f"{subject} {body[:1000]}": the subject's fragments come first.
\* The bodies of the model are far shorter than 1000 characters.
RECURSIVE TitleFrom(_, _, _)
TitleFrom(j, subject, body) ==
    IF j > 5 THEN ""
    ELSE LET inSubject == FirstCapture(TitleCaptureTable, j, subject)
             title     == IF inSubject # "" THEN inSubject
                          ELSE FirstCapture(TitleCaptureTable, j, body)
         IN  IF title # "" /\ 3 < StrLen(title) /\ StrLen(title) < 80
             THEN title
             ELSE TitleFrom(j + 1, subject, body)

_extract_job_title(subject, body) == TitleFrom(1, subject, body)

---------------------------------------------------------------------------
(* email_classifier.py: classify_email. *)

Categories ==
    {"applied", "interview", "rejection", "offer", "follow_up", "direct", "other"}

Subject(e)      == LowerText(Get(e, "subject", {}))
BodyText(e)     == LowerText(Get(e, "body_text", {}))
Snippet(e)      == LowerText(Get(e, "snippet", {}))
SenderOf(e)     == Lower(Get(e, "sender", ""))
SenderDomain(e) == Lower(Get(e, "sender_domain", ""))
SenderEmail(e)  == Lower(Get(e, "sender_email", ""))

\* combined_text = f"{subject} {snippet} {body}"
CombinedText(e) == Subject(e) \cup Snippet(e) \cup BodyText(e)

noise_sender(e) ==
    \E i \in DOMAIN NOISE_SENDER_PATTERNS :
        re_search(NOISE_SENDER_PATTERNS[i], SenderEmail(e))

noise_subject(e) == AnyMatch(NOISE_SUBJECT_PATTERNS, Subject(e))

IsNoise(e) == noise_sender(e) \/ noise_subject(e)

\* re.search(pattern, sender + ' ' + sender_email)
IsOverrideSender(e) ==
    AnyMatch(DIRECT_OVERRIDE_SENDERS, {SenderOf(e), SenderEmail(e)})

IsInterviewPlatform(e) == SenderDomain(e) \in INTERVIEW_PLATFORM_DOMAINS

SubjectApplied(e) == AnyMatch(SUBJECT_APPLIED_PATTERNS, Subject(e))

tier1_match(e) == AnyMatch(INTERVIEW_TIER1_PATTERNS, CombinedText(e))

has_keyword_in_subject(e) == AnyMatch(INTERVIEW_TIER2_KEYWORDS, Subject(e))

has_action(e) == AnyMatch(INTERVIEW_ACTION_SIGNALS, CombinedText(e))


\* An interview detection whose second tier is satisfied by a subject
\* keyword or an action signal, either one alone.
InterviewCandidate_tier2_or(e) ==
    IF tier1_match(e) THEN << <<"interview", 95>> >>
    ELSE IF has_keyword_in_subject(e) \/ has_action(e)
         THEN << <<"interview", 88>> >>
         ELSE << >>

\* An interview detection whose second tier accepts a keyword anywhere in
\* subject+snippet+body and asks for no action signal.
InterviewCandidate_keyword_anywhere(e) ==
    IF tier1_match(e) THEN << <<"interview", 95>> >>
    ELSE IF AnyMatch(INTERVIEW_TIER2_KEYWORDS, CombinedText(e))
         THEN << <<"interview", 88>> >>
         ELSE << >>

\* Lines 358-368: the interview entry of `results`, if any.
InterviewCandidate(e) ==
    IF tier1_match(e) THEN << <<"interview", 95>> >>
    ELSE IF has_keyword_in_subject(e) /\ has_action(e)
         THEN << <<"interview", 88>> >>
         ELSE << >>

\* A best_confidence that adds up the confidences of the matching rules
\* instead of keeping their maximum.
RECURSIVE BestConfidenceSum(_, _, _)
BestConfidenceSum(patterns, n, T) ==
    IF n = 0 THEN 0
    ELSE BestConfidenceSum(patterns, n - 1, T)
         + (IF SearchText(patterns[n][1], T) THEN patterns[n][2] ELSE 0)

\* A best_confidence that keeps the confidence of the last matching rule
\* (an assignment without max()).
RECURSIVE BestConfidence_last_match(_, _, _)
BestConfidence_last_match(patterns, n, T) ==
    IF n = 0 THEN 0
    ELSE IF SearchText(patterns[n][1], T)
         THEN patterns[n][2]
         ELSE BestConfidence_last_match(patterns, n - 1, T)

\* Lines 378-381: best_confidence after the loop over rules 1..n of a table.
RECURSIVE BestConfidence(_, _, _)
BestConfidence(patterns, n, T) ==
    IF n = 0 THEN 0
    ELSE LET best == BestConfidence(patterns, n - 1, T)
         IN  IF SearchText(patterns[n][1], T) /\ patterns[n][2] > best
             THEN patterns[n][2]
             ELSE best

\* Lines 371-377: the categories of the standard matching, in loop order.
CategoryTables ==
    << <<"rejection", REJECTION_PATTERNS>>,
       <<"offer", OFFER_PATTERNS>>,
       <<"follow_up", FOLLOWUP_PATTERNS>>,
       <<"applied", APPLIED_PATTERNS>>,
       <<"direct", DIRECT_OUTREACH_PATTERNS>> >>

\* Lines 371-384: what the loop over the first n categories appends.
RECURSIVE CategoryCandidates(_, _)
CategoryCandidates(e, n) ==
    IF n = 0 THEN << >>
    ELSE LET category == CategoryTables[n][1]
             patterns == CategoryTables[n][2]
             best     == BestConfidence(patterns, Len(patterns), CombinedText(e))
         IN  IF best > 0
             THEN Append(CategoryCandidates(e, n - 1), <<category, best>>)
             ELSE CategoryCandidates(e, n - 1)

\* A `results` list that gains a direct entry at 0.70 whenever
\* _is_direct_company_email trusts the sender.
Results_company_domain_direct(e) ==
    InterviewCandidate(e) \o CategoryCandidates(e, Len(CategoryTables))
    \o (IF _is_direct_company_email(SenderEmail(e), SenderDomain(e))
        THEN << <<"direct", 70>> >>
        ELSE << >>)

\* A `results` list in which the interview entry is appended after the
\* rejection entry: the order rejection, interview, offer, follow_up,
\* applied, direct.
Results_rejection_first(e) ==
    LET cands == CategoryCandidates(e, Len(CategoryTables))
    IN  IF cands # << >> /\ cands[1][1] = "rejection"
        THEN <<cands[1]>> \o InterviewCandidate(e) \o Tail(cands)
        ELSE InterviewCandidate(e) \o cands

\* The list `results` before the sort (lines 356-384).
Results(e) == InterviewCandidate(e) \o CategoryCandidates(e, Len(CategoryTables))

\* list.sort(key=confidence, reverse=True) is stable: entries of equal
\* confidence keep the order in which they were appended.
RECURSIVE InsertDesc(_, _)
InsertDesc(x, s) ==
    IF s = << >> THEN <<x>>
    ELSE IF Head(s)[2] >= x[2] THEN <<Head(s)>> \o InsertDesc(x, Tail(s))
    ELSE <<x>> \o s

RECURSIVE SortByConfidenceDesc(_)
SortByConfidenceDesc(s) ==
    IF s = << >> THEN << >>
    ELSE InsertDesc(s[Len(s)], SortByConfidenceDesc(SubSeq(s, 1, Len(s) - 1)))

\* Line 387: `results` after the sort.
Ranked(e) == SortByConfidenceDesc(Results(e))

\* max(c for cat, c in results if cat == 'applied')
MaxApplied(results) ==
    LET cs == {results[i][2] : i \in {k \in DOMAIN results : results[k][1] = "applied"}}
    IN  CHOOSE c \in cs : \A d \in cs : d <= c

\* The persistence layer's default category, used as the fallback.
FallbackCategoryUnknown == "unknown"

\* Line 407
FallbackCategory == "other"

\* A decision without the automated-sender downgrade.
Decide_no_downgrade(e, results) ==
    IF results # << >>
    THEN [category |-> results[1][1], confidence |-> results[1][2]]
    ELSE [category |-> FallbackCategory, confidence |-> 50]

\* A decision whose no-match branch falls back to direct at 0.70 for a
\* sender that _is_direct_company_email accepts (the earlier ruleset).
Decide_direct_fallback(e, results) ==
    IF results # << >>
    THEN LET category   == results[1][1]
             confidence == results[1][2]
         IN  IF _is_automated_sender(SenderEmail(e)) /\ category = "interview"
             THEN IF \E i \in DOMAIN results : results[i][1] = "applied"
                  THEN [category |-> "applied", confidence |-> MaxApplied(results)]
                  ELSE [category |-> "applied", confidence |-> 75]
             ELSE [category |-> category, confidence |-> confidence]
    ELSE IF _is_direct_company_email(SenderEmail(e), SenderDomain(e))
         THEN [category |-> "direct", confidence |-> 70]
         ELSE [category |-> FallbackCategory, confidence |-> 50]

\* A downgrade that keeps the confidence of the interview candidate.
Decide_downgrade_keeps_confidence(e, results) ==
    IF results # << >>
    THEN LET category   == results[1][1]
             confidence == results[1][2]
         IN  IF _is_automated_sender(SenderEmail(e)) /\ category = "interview"
             THEN [category |-> "applied", confidence |-> confidence]
             ELSE [category |-> category, confidence |-> confidence]
    ELSE [category |-> FallbackCategory, confidence |-> 50]

\* A downgrade that is applied only when an applied rule matched.
Decide_downgrade_needs_applied(e, results) ==
    IF results # << >>
    THEN LET category   == results[1][1]
             confidence == results[1][2]
         IN  IF /\ _is_automated_sender(SenderEmail(e))
                /\ category = "interview"
                /\ \E i \in DOMAIN results : results[i][1] = "applied"
             THEN [category |-> "applied", confidence |-> MaxApplied(results)]
             ELSE [category |-> category, confidence |-> confidence]
    ELSE [category |-> FallbackCategory, confidence |-> 50]

\* Lines 389-408: category and confidence from the sorted list.
Decide(e, results) ==
    IF results # << >>
    THEN LET category   == results[1][1]
             confidence == results[1][2]
         IN  IF _is_automated_sender(SenderEmail(e)) /\ category = "interview"
             THEN IF \E i \in DOMAIN results : results[i][1] = "applied"
                  THEN [category |-> "applied", confidence |-> MaxApplied(results)]
                  ELSE [category |-> "applied", confidence |-> 75]
             ELSE [category |-> category, confidence |-> confidence]
    ELSE [category |-> FallbackCategory, confidence |-> 50]

\* A return value whose metadata is extracted only for the categories
\* that are not other.
WithMetadata_skip_other(e, category, confidence) ==
    [category     |-> category,
     confidence   |-> confidence,
     company_name |-> IF category = "other" THEN "" ELSE _extract_company_name(e),
     job_title    |-> IF category = "other" THEN ""
                      ELSE _extract_job_title(Subject(e), BodyText(e))]

\* Lines 410-419
WithMetadata(e, category, confidence) ==
    [category     |-> category,
     confidence   |-> confidence,
     company_name |-> _extract_company_name(e),
     job_title    |-> _extract_job_title(Subject(e), BodyText(e))]

\* Lines 302-308
NoiseResult ==
    [category |-> "other", confidence |-> 90, company_name |-> "", job_title |-> ""]

\* A classify_email that tests the override senders before the noise filter.
classify_email_override_first(email_data) ==
    IF IsOverrideSender(email_data) THEN WithMetadata(email_data, "direct", 95)
    ELSE IF IsNoise(email_data) THEN NoiseResult
    ELSE IF IsInterviewPlatform(email_data) THEN WithMetadata(email_data, "interview", 97)
    ELSE IF SubjectApplied(email_data) THEN WithMetadata(email_data, "applied", 98)
    ELSE LET d == Decide(email_data, Ranked(email_data))
         IN  WithMetadata(email_data, d.category, d.confidence)

\* A classify_email that tests the interview-platform domain before the
\* override senders.
classify_email_platform_before_override(email_data) ==
    IF IsNoise(email_data) THEN NoiseResult
    ELSE IF IsInterviewPlatform(email_data) THEN WithMetadata(email_data, "interview", 97)
    ELSE IF IsOverrideSender(email_data) THEN WithMetadata(email_data, "direct", 95)
    ELSE IF SubjectApplied(email_data) THEN WithMetadata(email_data, "applied", 98)
    ELSE LET d == Decide(email_data, Ranked(email_data))
         IN  WithMetadata(email_data, d.category, d.confidence)

\* A classify_email that tests the subject-line applied patterns before
\* the interview-platform domain.
classify_email_subject_before_platform(email_data) ==
    IF IsNoise(email_data) THEN NoiseResult
    ELSE IF IsOverrideSender(email_data) THEN WithMetadata(email_data, "direct", 95)
    ELSE IF SubjectApplied(email_data) THEN WithMetadata(email_data, "applied", 98)
    ELSE IF IsInterviewPlatform(email_data) THEN WithMetadata(email_data, "interview", 97)
    ELSE LET d == Decide(email_data, Ranked(email_data))
         IN  WithMetadata(email_data, d.category, d.confidence)

\* A classify_email in which a Tier-1 match classifies at once, before the
\* subject-line applied patterns are tried.
classify_email_tier1_before_subject(email_data) ==
    IF IsNoise(email_data) THEN NoiseResult
    ELSE IF IsOverrideSender(email_data) THEN WithMetadata(email_data, "direct", 95)
    ELSE IF IsInterviewPlatform(email_data) THEN WithMetadata(email_data, "interview", 97)
    ELSE IF SubjectApplied(email_data) /\ ~ tier1_match(email_data)
         THEN WithMetadata(email_data, "applied", 98)
    ELSE LET d == Decide(email_data, Ranked(email_data))
         IN  WithMetadata(email_data, d.category, d.confidence)

\* A classify_email that trusts a classification already attached to the
\* record: it is returned as it stands, at full confidence.
classify_email_trusts_attached(email_data) ==
    IF "category" \in DOMAIN email_data
    THEN [category     |-> email_data.category,
          confidence   |-> 100,
          company_name |-> email_data.company_name,
          job_title    |-> email_data.job_title]
    ELSE IF IsNoise(email_data) THEN NoiseResult
    ELSE IF IsOverrideSender(email_data) THEN WithMetadata(email_data, "direct", 95)
    ELSE IF IsInterviewPlatform(email_data) THEN WithMetadata(email_data, "interview", 97)
    ELSE IF SubjectApplied(email_data) THEN WithMetadata(email_data, "applied", 98)
    ELSE LET d == Decide(email_data, Ranked(email_data))
         IN  WithMetadata(email_data, d.category, d.confidence)

classify_email(email_data) ==
    IF IsNoise(email_data) THEN NoiseResult
    ELSE IF IsOverrideSender(email_data) THEN WithMetadata(email_data, "direct", 95)
    ELSE IF IsInterviewPlatform(email_data) THEN WithMetadata(email_data, "interview", 97)
    ELSE IF SubjectApplied(email_data) THEN WithMetadata(email_data, "applied", 98)
    ELSE LET d == Decide(email_data, Ranked(email_data))
         IN  WithMetadata(email_data, d.category, d.confidence)

\* Lines 288-293: .lower() is called on the value of each of these keys;
\* dict.get returns its default for an absent key only, so a key that is
\* present with the value None raises AttributeError.
LoweredFields ==
    {"subject", "body_text", "snippet", "sender", "sender_domain", "sender_email"}

Raises(e) == \E k \in LoweredFields : IsNull(e, k)

\* The value of the local list `results` when classify_email returns: it
\* is created only when no early return is taken.
ResultsOnReturn(e) ==
    IF IsNoise(e) \/ IsOverrideSender(e) \/ IsInterviewPlatform(e) \/ SubjectApplied(e)
    THEN << >>
    ELSE Ranked(e)

---------------------------------------------------------------------------
(* The single-record caller: one message record, classified once. *)

NoResult == [category |-> "", confidence |-> 0, company_name |-> "", job_title |-> ""]

Fields == {"subject", "snippet", "body_text"}

PhraseSets == {S \in SUBSET PhraseSet : Cardinality(S) <= MaxPhrases}

\* The message record email_fetcher builds (lines 131-142).
MessageRecord(id, S, place, s) ==
    [id            |-> id,
     subject       |-> {p \in S : place[p] = "subject"},
     sender        |-> s.sender,
     sender_email  |-> s.sender_email,
     sender_domain |-> s.sender_domain,
     sender_name   |-> s.sender_name,
     date          |-> "2024-01-01T00:00:00",
     snippet       |-> {p \in S : place[p] = "snippet"},
     body_text     |-> {p \in S : place[p] = "body_text"},
     body_preview  |-> {p \in S : place[p] = "body_text"}]

BatchIdle ==
    /\ batch = << >>
    /\ orig = << >>
    /\ classified = << >>
    /\ previous = << >>
    /\ calls = 0
    /\ bpc = "idle"

NoCall == [op |-> "none"]

DbIdle ==
    /\ db = << >>
    /\ now = 0
    /\ dbop = NoCall

\* No scan has been requested through the single-scan variables.
ScanLocalsIdleButProcs ==
    /\ spc = "idle"
    /\ kind = "none"
    /\ raw = << >>
    /\ idx = 0
    /\ report = ""
    /\ erred = {}
    /\ scans = 0

\* fetch_emails is not being called on its own.
NotCalled == [pc |-> "idle"]

\* No scan has been requested.
ScanLocalsIdle ==
    /\ ScanLocalsIdleButProcs
    /\ snapshot = << >>
    /\ procs = << >>
    /\ fetch = NotCalled

\* None, for a time that was never set.
NoTime == -1

\* app.py lines 133-138
StatusAtImport ==
    [last_scan |-> NoTime, next_scan |-> NoTime, last_result |-> None,
     is_running |-> FALSE]

\* app.py is not loaded: no scan and no scheduler.
ScanIdle ==
    /\ ScanLocalsIdle
    /\ auto_scan_status = StatusAtImport
    /\ timers = 0

Init ==
    /\ \E S \in PhraseSets : \E place \in [S -> Fields] : \E s \in Senders :
           email = MessageRecord("m1", S, place, s)
    /\ result = NoResult
    /\ ranked = << >>
    /\ pc = "start"
    /\ BatchIdle
    /\ DbIdle
    /\ ScanIdle

\* One call of classify_email: it returns, or the exception of lines
\* 288-293 reaches the caller.
Classify ==
    /\ pc = "start"
    /\ IF Raises(email)
       THEN /\ pc' = "raised"
            /\ UNCHANGED <<result, ranked>>
       ELSE /\ result' = classify_email(email)
            /\ ranked' = ResultsOnReturn(email)
            /\ pc' = "done"
    /\ UNCHANGED <<email, batchVars, dbVars, scanVars>>

Next == Classify

Spec == Init /\ [][Next]_vars

---------------------------------------------------------------------------
(* The metadata extractors on their own inputs: the "Extract metadata"
   step of classify_email (lines 409-411) on records drawn from the
   metadata vocabulary. *)

MetaPhraseSets == {S \in SUBSET MetaPhraseSet : Cardinality(S) <= MaxPhrases}

InitMeta ==
    /\ \E S \in MetaPhraseSets : \E place \in [S -> {"subject", "body_text"}] :
       \E s \in MetaSenders :
           email = MessageRecord("m1", S, place, s)
    /\ result = NoResult
    /\ ranked = << >>
    /\ pc = "start"
    /\ BatchIdle
    /\ DbIdle
    /\ ScanIdle

\* company_name = _extract_company_name(email_data);
\* job_title = _extract_job_title(subject, body)
ExtractMetadata ==
    /\ pc = "start"
    /\ result' = [NoResult EXCEPT
                    !.company_name = _extract_company_name(email),
                    !.job_title    = _extract_job_title(Subject(email), BodyText(email))]
    /\ pc' = "extracted"
    /\ UNCHANGED <<email, ranked, batchVars, dbVars, scanVars>>

NextMeta == ExtractMetadata

SpecMeta == InitMeta /\ [][NextMeta]_vars

---------------------------------------------------------------------------
(* email_classifier.py: classify_emails, and a caller that classifies the  *)
(* same fetched messages repeatedly (one scan after the other).            *)

\* dict.update(other)
DictUpdate(d, other) ==
    [k \in DOMAIN d \cup DOMAIN other |-> IF k \in DOMAIN other THEN other[k] ELSE d[k]]

\* The list `classified` after the loop has handled emails[1..n].
RECURSIVE ClassifyLoop(_, _)
ClassifyLoop(emails, n) ==
    IF n = 0 THEN << >>
    ELSE Append(ClassifyLoop(emails, n - 1),
                DictUpdate(emails[n], classify_email(emails[n])))

\* A classify_emails whose `results` list is shared by the calls of
\* classify_email instead of being created by each of them.
RECURSIVE SharedResults(_, _)
SharedResults(emails, n) ==
    IF n = 0 THEN << >>
    ELSE LET e == emails[n]
         IN  IF IsNoise(e) \/ IsOverrideSender(e) \/ IsInterviewPlatform(e)
                \/ SubjectApplied(e)
             THEN SharedResults(emails, n - 1)
             ELSE SortByConfidenceDesc(SharedResults(emails, n - 1) \o Results(e))

RECURSIVE ClassifyLoopShared(_, _)
ClassifyLoopShared(emails, n) ==
    IF n = 0 THEN << >>
    ELSE LET e == emails[n]
             d == Decide(e, SharedResults(emails, n))
             c == IF IsNoise(e) \/ IsOverrideSender(e) \/ IsInterviewPlatform(e)
                     \/ SubjectApplied(e)
                  THEN classify_email(e)
                  ELSE WithMetadata(e, d.category, d.confidence)
         IN  Append(ClassifyLoopShared(emails, n - 1), DictUpdate(e, c))

classify_emails_shared_results(emails) == ClassifyLoopShared(emails, Len(emails))

\* A classify_emails that leaves out the records classified other.
RECURSIVE ClassifyLoopDropOther(_, _)
ClassifyLoopDropOther(emails, n) ==
    IF n = 0 THEN << >>
    ELSE LET c == classify_email(emails[n])
         IN  IF c.category = "other"
             THEN ClassifyLoopDropOther(emails, n - 1)
             ELSE Append(ClassifyLoopDropOther(emails, n - 1),
                         DictUpdate(emails[n], c))

classify_emails_drop_other(emails) == ClassifyLoopDropOther(emails, Len(emails))

\* A batch classifier that returns the records as fetched.
classify_emails_returns_input(emails) == emails

classify_emails(emails) == ClassifyLoop(emails, Len(emails))

\* The contents of the messages of a batch.
BatchSenders ==
    {s \in Senders : s.sender_email \in {"recruiter@company.com", "noreply@company.com"}}

BatchBodies ==
    { {}, {"We will not be moving forward"}, {"Your interview is scheduled"} }

BatchMessage(i, body, s) ==
    MessageRecord("m" \o ToString(i), body, [p \in body |-> "body_text"], s)

Batches ==
    UNION { [1..n -> BatchBodies \X BatchSenders] : n \in 0..MaxBatch }

ClassifierIdle ==
    /\ email = MessageRecord("m0", {}, << >>, CHOOSE s \in Senders : TRUE)
    /\ result = NoResult
    /\ ranked = << >>
    /\ pc = "idle"

InitBatch ==
    /\ \E b \in Batches :
           batch = [i \in DOMAIN b |-> BatchMessage(i, b[i][1], b[i][2])]
    /\ orig = batch
    /\ classified = << >>
    /\ previous = << >>
    /\ calls = 0
    /\ bpc = "fetched"
    /\ ClassifierIdle
    /\ DbIdle
    /\ ScanIdle

\* classified = classify_emails(raw_emails): the dicts of the caller's list
\* are the ones updated and returned.
ClassifyEmails ==
    /\ bpc = "fetched"
    /\ classified' = classify_emails(batch)
    /\ batch' = classified'
    /\ previous' = classified
    /\ calls' = calls + 1
    /\ bpc' = "classified"
    /\ UNCHANGED <<orig, classifierVars, dbVars, scanVars>>

\* classify_emails applied to the list it returned: the records already
\* carry category, confidence, company_name and job_title.
ReclassifyEmails ==
    /\ bpc = "classified"
    /\ classified' = classify_emails(batch)
    /\ batch' = classified'
    /\ previous' = classified
    /\ bpc' = "reclassified"
    /\ UNCHANGED <<orig, calls, classifierVars, dbVars, scanVars>>

\* The next scan fetches the same messages again, as fresh dicts.
FetchAgain ==
    /\ bpc \in {"classified", "reclassified"}
    /\ calls < MaxCalls
    /\ batch' = orig
    /\ bpc' = "fetched"
    /\ UNCHANGED <<orig, classified, previous, calls, classifierVars, dbVars, scanVars>>

NextBatch == ClassifyEmails \/ ReclassifyEmails \/ FetchAgain

SpecBatch == InitBatch /\ [][NextBatch]_vars

---------------------------------------------------------------------------
(* The single-record caller with records whose string fields are each     *)
(* present, absent or None.                                                *)

StringFields ==
    {"subject", "snippet", "body_text", "sender", "sender_email",
     "sender_domain", "sender_name"}

FieldStates == {"present", "absent", "null"}

\* The record rec with each string field kept, removed or set to None.
Shape(rec, st) ==
    [k \in {f \in DOMAIN rec : f \in StringFields => st[f] # "absent"} |->
        IF k \in StringFields /\ st[k] = "null" THEN NullOf(k) ELSE rec[k]]

NullBodies ==
    { {}, {"Your interview is scheduled"}, {"We will not be moving forward"} }

InitNull ==
    /\ \E body \in NullBodies : \E s \in BatchSenders :
       \E st \in [StringFields -> FieldStates] :
           email = Shape(MessageRecord("m1", body, [p \in body |-> "body_text"], s), st)
    /\ result = NoResult
    /\ ranked = << >>
    /\ pc = "start"
    /\ BatchIdle
    /\ DbIdle
    /\ ScanIdle

SpecNull == InitNull /\ [][Next]_vars

---------------------------------------------------------------------------
(* database.py: the emails table, upsert_email and mark_as_read.  The      *)
(* table is a function from id to row; an operation takes the table and    *)
(* returns the table it commits.                                           *)

\* The VALUES tuple of the INSERT (lines 60-72) with the column defaults
\* of the schema (is_read 0).
Row(email_data, t) ==
    [id            |-> email_data.id,
     subject       |-> Get(email_data, "subject", {}),
     sender        |-> Get(email_data, "sender", ""),
     sender_domain |-> Get(email_data, "sender_domain", ""),
     date          |-> Get(email_data, "date", ""),
     category      |-> Get(email_data, "category", "unknown"),
     confidence    |-> Get(email_data, "confidence", 0),
     company_name  |-> Get(email_data, "company_name", ""),
     job_title     |-> Get(email_data, "job_title", ""),
     snippet       |-> Get(email_data, "snippet", {}),
     body_preview  |-> Get(email_data, "body_preview", {}),
     is_read       |-> 0,
     created_at    |-> t]

\* INSERT OR REPLACE: on a conflict the whole row is written anew.
upsert_email_replace(table, email_data, t) ==
    [id \in DOMAIN table \cup {email_data.id} |->
        IF id = email_data.id THEN Row(email_data, t) ELSE table[id]]

\* DELETE FROM emails, then INSERT: the table holds the record of the
\* last call only.
upsert_email_truncating(table, email_data, t) ==
    [id \in {email_data.id} |-> Row(email_data, t)]

\* Lines 45-73: INSERT ... ON CONFLICT(id) DO UPDATE SET category,
\* confidence, company_name, job_title; t is datetime.utcnow().
upsert_email(table, email_data, t) ==
    LET new == Row(email_data, t)
    IN  [id \in DOMAIN table \cup {new.id} |->
            IF id # new.id THEN table[id]
            ELSE IF id \in DOMAIN table
                 THEN [table[id] EXCEPT !.category     = new.category,
                                        !.confidence   = new.confidence,
                                        !.company_name = new.company_name,
                                        !.job_title    = new.job_title]
                 ELSE new]

\* Lines 158-164: UPDATE emails SET is_read = 1 WHERE id = ?
mark_as_read(table, email_id) ==
    [id \in DOMAIN table |->
        IF id = email_id THEN [table[id] EXCEPT !.is_read = 1] ELSE table[id]]

\* The callers of database.py: records with two identifiers, two message
\* contents and two classifications, or no classification at all.
DbIds == {"m1", "m2"}

DbContents == { {"Your interview is scheduled"}, {"The position has been filled"} }

DbClassifications ==
    { << >>,
      [category |-> "interview", confidence |-> 95, company_name |-> "Company",
       job_title |-> ""],
      [category |-> "rejection", confidence |-> 88, company_name |-> "",
       job_title |-> "data analyst"] }

UpsertInputs ==
    { DictUpdate(MessageRecord(id, S, [p \in S |-> "subject"],
                               CHOOSE x \in Senders : x.sender_email = "recruiter@company.com"),
                 c) :
        id \in DbIds, S \in DbContents, c \in DbClassifications }

InitDb ==
    /\ DbIdle
    /\ ScanIdle
    /\ BatchIdle
    /\ ClassifierIdle

UpsertEmail ==
    /\ now < MaxUpserts
    /\ \E e \in UpsertInputs :
           /\ db' = upsert_email(db, e, now)
           /\ dbop' = [op |-> "upsert_email", id |-> e.id, data |-> e,
                       existed |-> e.id \in DOMAIN db]
    /\ now' = now + 1
    /\ UNCHANGED <<classifierVars, batchVars, scanVars>>

MarkAsRead ==
    /\ \E id \in DbIds :
           /\ db' = mark_as_read(db, id)
           /\ dbop' = [op |-> "mark_as_read", id |-> id]
    /\ UNCHANGED <<now, classifierVars, batchVars, scanVars>>

NextDb == UpsertEmail \/ MarkAsRead

SpecDb == InitDb /\ [][NextDb]_vars

---------------------------------------------------------------------------
(* app.py: a scan, manual (scan_emails) or scheduled (_run_auto_scan):     *)
(* authentication check, fetch_emails, classify_emails, then one           *)
(* upsert_email per record, each committed on its own.                     *)

\* The messages the Gmail query matches.
Mailbox ==
    << BatchMessage(1, {"We will not be moving forward"},
                    CHOOSE x \in Senders : x.sender_email = "recruiter@company.com"),
       BatchMessage(2, {"Your interview is scheduled"},
                    CHOOSE x \in Senders : x.sender_email = "noreply@company.com") >>

\* The sub-lists of a list, order kept.
RECURSIVE SubLists(_)
SubLists(list) ==
    IF list = << >> THEN { << >> }
    ELSE LET rest == SubLists(Tail(list))
         IN  rest \cup { <<Head(list)>> \o r : r \in rest }

\* What fetch_emails can do (email_fetcher.py lines 58-93 and 95-105):
\* return every message; or lose messages to an error it catches and
\* prints (no service: [], a failed list call: break, a failed get: the
\* message is skipped) and return the rest; or let an exception through.
FetchOutcomes ==
    { [emails |-> Mailbox, error |-> "none"], [emails |-> << >>, error |-> "raised"] }
    \cup { [emails |-> l, error |-> "caught"] : l \in SubLists(Mailbox) \ {Mailbox} }

\* classify_emails on each list fetch_emails can return.
ClassifiedLists == [l \in SubLists(Mailbox) |-> classify_emails(l)]

\* What a scan of the kind reports.
NotAuthenticated(k) ==
    IF k = "manual" THEN "401 Not authenticated" ELSE "Skipped (not authenticated)"

ScanFailed(k) == IF k = "manual" THEN "500 Scan failed" ELSE "Error"

ScanSucceeded(k) == IF k = "manual" THEN "200 success" ELSE "Scanned"

\* start_scheduler (lines 174-181): one Timer is created and started.
start_scheduler(n) == n + 1

\* The application after import (lines 197-201): an empty table, the
\* scheduler started.
InitScan ==
    /\ DbIdle
    /\ ScanLocalsIdle
    /\ auto_scan_status = StatusAtImport
    /\ timers = start_scheduler(0)
    /\ BatchIdle
    /\ ClassifierIdle

\* A status whose last_scan is set by every run, skipped or failed too.
AutoStatusAfter_stamps_every_run(status, outcome, t) ==
    [last_scan   |-> t,
     next_scan   |-> t,
     last_result |-> CASE outcome = "scanned" -> "Scanned"
                       [] outcome = "skipped" -> "Skipped (not authenticated)"
                       [] outcome = "error"   -> "Error",
     is_running  |-> FALSE]

\* auto_scan_status when _run_auto_scan is left (lines 156-171): the try
\* block set last_scan and last_result after a scan, or last_result alone
\* when the scan was skipped; the except block set last_result; the
\* finally block clears is_running and sets next_scan.
AutoStatusAfter(status, outcome, t) ==
    [last_scan   |-> IF outcome = "scanned" THEN t ELSE status.last_scan,
     next_scan   |-> t,
     last_result |-> CASE outcome = "scanned" -> "Scanned"
                       [] outcome = "skipped" -> "Skipped (not authenticated)"
                       [] outcome = "error"   -> "Error",
     is_running  |-> FALSE]

\* A run that schedules the next one at the end of the try block only.
TimersAfter_not_after_error(n, outcome) == IF outcome = "error" THEN n ELSE n + 1

\* The finally block (lines 166-170): a new Timer is started, whatever the
\* outcome of the run.
TimersAfter(n, outcome) == n + 1

\* The scan returns: a manual scan sends its response, an auto-scan runs
\* the rest of _run_auto_scan.
Leave(outcome) ==
    IF kind = "auto"
    THEN /\ auto_scan_status' = AutoStatusAfter(auto_scan_status, outcome, now)
         /\ timers' = TimersAfter(timers, outcome)
    ELSE UNCHANGED schedVars

\* A scan begins: a POST to /api/scan, or the pending Timer fires and
\* _run_auto_scan sets is_running (line 145).
BeginScan(k) ==
    /\ spc \in {"idle", "done", "failed"}
    /\ kind' = k
    /\ spc' = "auth"
    /\ raw' = << >>
    /\ idx' = 0
    /\ report' = ""
    /\ erred' = {}
    /\ snapshot' = db
    /\ IF k = "auto"
       THEN /\ timers > 0
            /\ timers' = timers - 1
            /\ auto_scan_status' = [auto_scan_status EXCEPT !.is_running = TRUE]
       ELSE UNCHANGED schedVars
    /\ UNCHANGED <<db, dbop, classifierVars, batchVars, procs, fetch>>

StartScan ==
    /\ scans < MaxScans
    /\ \E k \in {"manual", "auto"} : BeginScan(k)
    /\ scans' = scans + 1
    /\ now' = now + 1

\* if not is_authenticated(): ...
Authenticate ==
    /\ spc = "auth"
    /\ \E authenticated \in BOOLEAN :
           IF authenticated
           THEN /\ spc' = "fetch"
                /\ UNCHANGED <<report, erred, schedVars>>
           ELSE /\ spc' = "failed"
                /\ report' = NotAuthenticated(kind)
                /\ erred' = erred \cup {"authentication"}
                /\ Leave("skipped")
    /\ UNCHANGED <<kind, raw, idx, snapshot, scans, dbVars, classifierVars, batchVars, procs, fetch>>

\* raw_emails = fetch_emails(max_results=...)
FetchEmails ==
    /\ spc = "fetch"
    /\ \E out \in FetchOutcomes :
           /\ raw' = out.emails
           /\ erred' = IF out.error = "none" THEN erred ELSE erred \cup {"fetch"}
           /\ IF out.error = "raised"
              THEN spc' = "failed" /\ report' = ScanFailed(kind) /\ Leave("error")
              ELSE spc' = "classify" /\ UNCHANGED <<report, schedVars>>
    /\ UNCHANGED <<kind, idx, snapshot, scans, dbVars, classifierVars, batchVars, procs, fetch>>

\* classified = classify_emails(raw_emails)
ClassifyScan ==
    /\ spc = "classify"
    /\ IF \E i \in DOMAIN raw : Raises(raw[i])
       THEN /\ spc' = "failed"
            /\ report' = ScanFailed(kind)
            /\ erred' = erred \cup {"classification"}
            /\ Leave("error")
            /\ UNCHANGED raw
       ELSE /\ raw' = ClassifiedLists[raw]
            /\ spc' = "persist"
            /\ UNCHANGED <<report, erred, schedVars>>
    /\ UNCHANGED <<kind, idx, snapshot, scans, dbVars, classifierVars, batchVars, procs, fetch>>

\* One turn of `for email in classified: upsert_email(email)`: the call
\* commits, or sqlite3 raises and nothing of this call is committed.
UpsertNext ==
    /\ spc = "persist"
    /\ idx < Len(raw)
    /\ \E committed \in BOOLEAN :
           IF committed
           THEN /\ db' = upsert_email(db, raw[idx + 1], now)
                /\ dbop' = [op |-> "upsert_email", id |-> raw[idx + 1].id,
                            data |-> raw[idx + 1],
                            existed |-> raw[idx + 1].id \in DOMAIN db]
                /\ idx' = idx + 1
                /\ UNCHANGED <<spc, report, erred, schedVars>>
           ELSE /\ spc' = "failed"
                /\ report' = ScanFailed(kind)
                /\ erred' = erred \cup {"persistence"}
                /\ Leave("error")
                /\ UNCHANGED <<db, dbop, idx>>
    /\ UNCHANGED <<now, kind, raw, snapshot, scans, classifierVars, batchVars, procs, fetch>>

\* The loop is over: the scan reports its count.
FinishScan ==
    /\ spc = "persist"
    /\ idx = Len(raw)
    /\ spc' = "done"
    /\ report' = ScanSucceeded(kind)
    /\ Leave("scanned")
    /\ UNCHANGED <<kind, raw, idx, erred, snapshot, scans, dbVars, classifierVars,
                   batchVars, procs, fetch>>

NextScan ==
    StartScan \/ Authenticate \/ FetchEmails \/ ClassifyScan \/ UpsertNext \/ FinishScan

SpecScan == InitScan /\ [][NextScan]_vars

---------------------------------------------------------------------------
(* app.py: the scheduler thread on its own, run after run.  The clock is
   not advanced, so that the runs can go on for ever in a finite state
   space. *)

\* The pending Timer fires and calls _run_auto_scan.
TimerFires ==
    /\ BeginScan("auto")
    /\ UNCHANGED <<scans, now>>

NextSched ==
    TimerFires \/ Authenticate \/ FetchEmails \/ ClassifyScan \/ UpsertNext \/ FinishScan

SpecSched == InitScan /\ [][NextSched]_vars

\* A started Timer fires after its interval, and every call the run makes
\* returns or raises.
SpecSchedFair == SpecSched /\ WF_vars(NextSched)

---------------------------------------------------------------------------
(* app.py: a manual scan (a request thread) and an auto-scan (the Timer
   thread) running at once, both authenticated; each upsert_email is one committed statement, and the
   clock advances between the statements. *)

Procs == {"manual", "auto"}

\* A row stored by an earlier scan under older rules, and read since.
StoredEarlier ==
    mark_as_read(
        upsert_email(<< >>, [ClassifiedLists[Mailbox][1] EXCEPT
                                !.category = "other", !.confidence = 50], 0),
        "m1")

InitialStores == { << >>, StoredEarlier }

InitConc ==
    /\ db \in InitialStores
    /\ snapshot = db
    /\ now = 1
    /\ dbop = NoCall
    /\ procs = [p \in Procs |-> [pc |-> "fetch", fetched |-> << >>,
                                 classified |-> << >>, idx |-> 0]]
    /\ auto_scan_status = [StatusAtImport EXCEPT !.is_running = TRUE]
    /\ timers = 0
    /\ ScanLocalsIdleButProcs
    /\ fetch = NotCalled
    /\ BatchIdle
    /\ ClassifierIdle

\* raw = fetch_emails(...): the messages the query matches now.
FetchBy(p) ==
    /\ procs[p].pc = "fetch"
    /\ \E l \in SubLists(Mailbox) :
           procs' = [procs EXCEPT ![p].fetched = l, ![p].pc = "classify"]
    /\ UNCHANGED <<scanLocals, snapshot, schedVars, dbVars, classifierVars, batchVars, fetch>>

\* classified = classify_emails(raw)
ClassifyBy(p) ==
    /\ procs[p].pc = "classify"
    /\ procs' = [procs EXCEPT ![p].classified = ClassifiedLists[procs[p].fetched],
                              ![p].pc = "persist"]
    /\ UNCHANGED <<scanLocals, snapshot, schedVars, dbVars, classifierVars, batchVars, fetch>>

\* One turn of the upsert loop of the scan.
UpsertBy(p) ==
    /\ procs[p].pc = "persist"
    /\ procs[p].idx < Len(procs[p].classified)
    /\ LET rec == procs[p].classified[procs[p].idx + 1]
       IN  /\ db' = upsert_email(db, rec, now)
           /\ dbop' = [op |-> "upsert_email", id |-> rec.id, data |-> rec,
                       existed |-> rec.id \in DOMAIN db]
    /\ now' = now + 1
    /\ procs' = [procs EXCEPT ![p].idx = @ + 1]
    /\ UNCHANGED <<scanLocals, snapshot, schedVars, classifierVars, batchVars, fetch>>

\* The loop is over: the manual scan responds, the auto-scan sets its
\* status and schedules the next run.
FinishBy(p) ==
    /\ procs[p].pc = "persist"
    /\ procs[p].idx = Len(procs[p].classified)
    /\ procs' = [procs EXCEPT ![p].pc = "done"]
    /\ IF p = "auto"
       THEN /\ auto_scan_status' = AutoStatusAfter(auto_scan_status, "scanned", now)
            /\ timers' = TimersAfter(timers, "scanned")
       ELSE UNCHANGED schedVars
    /\ UNCHANGED <<scanLocals, snapshot, dbVars, classifierVars, batchVars, fetch>>

NextConc ==
    \E p \in Procs : FetchBy(p) \/ ClassifyBy(p) \/ UpsertBy(p) \/ FinishBy(p)

SpecConc == InitConc /\ [][NextConc]_vars

---------------------------------------------------------------------------
(* email_fetcher.py: fetch_emails, against a provider that returns at most
   maxResults messages per page and a finite chain of page tokens.
   Messages are numbered in the order the provider lists them; page token
   0 is None. *)

Min(a, b) == IF a <= b THEN a ELSE b

\* A page size computed from max_results alone.
PageRequest_ignores_collected(max_results, n) == Min(PageCap, max_results)

\* maxResults=min(100, max_results - len(emails))
PageRequest(max_results, n) == Min(PageCap, max_results - n)

\* The messages k+1 .. k+m.
Listed(k, m) == [i \in 1..m |-> k + i]

InitFetch ==
    /\ \E m \in 0..MaxResults :
           fetch = [pc |-> "called", max_results |-> m, emails |-> << >>,
                    page_token |-> 0,
                    results |-> [messages |-> << >>, nextPageToken |-> 0],
                    listed |-> 0, pages |-> 0, skipped |-> 0, why |-> ""]
    /\ ScanLocalsIdleButProcs
    /\ snapshot = << >>
    /\ procs = << >>
    /\ auto_scan_status = StatusAtImport
    /\ timers = 0
    /\ DbIdle
    /\ BatchIdle
    /\ ClassifierIdle

Return(why) == fetch' = [fetch EXCEPT !.pc = "returned", !.why = why]

\* service = get_gmail_service(); if not service: return []
GetService ==
    /\ fetch.pc = "called"
    /\ \E service \in BOOLEAN :
           IF service THEN fetch' = [fetch EXCEPT !.pc = "loop"]
           ELSE Return("no service")
    /\ UNCHANGED <<classifierVars, batchVars, dbVars, scanLocals, snapshot, schedVars,
                   procs>>

\* The while test fails: return emails.
LeaveLoop ==
    /\ fetch.pc = "loop"
    /\ ~ (Len(fetch.emails) < fetch.max_results)
    /\ Return("collected")
    /\ UNCHANGED <<classifierVars, batchVars, dbVars, scanLocals, snapshot, schedVars,
                   procs>>

\* One messages().list call: it raises, or it returns a page of at most
\* maxResults messages, with a next-page token unless the chain ends.
ListPage ==
    /\ fetch.pc = "loop"
    /\ Len(fetch.emails) < fetch.max_results
    /\ \/ Return("list error")
       \/ \E m \in 0..PageRequest(fetch.max_results, Len(fetch.emails)) :
          \E more \in BOOLEAN :
              /\ more => fetch.pages + 1 < MaxPages
              /\ LET token == IF more THEN fetch.pages + 2 ELSE 0
                 IN  IF m = 0
                     THEN fetch' = [fetch EXCEPT !.pc = "returned", !.why = "empty page",
                                                 !.pages = @ + 1]
                     ELSE fetch' = [fetch EXCEPT
                                      !.pc = "page",
                                      !.results = [messages |-> Listed(fetch.listed, m),
                                                   nextPageToken |-> token],
                                      !.listed = @ + m,
                                      !.pages = @ + 1]
    /\ UNCHANGED <<classifierVars, batchVars, dbVars, scanLocals, snapshot, schedVars,
                   procs>>

\* One turn of the for loop: _fetch_single_email returns the record, or
\* None after a failed get (the message is skipped), or an exception of
\* its parsing code leaves fetch_emails.
FetchSingle ==
    /\ fetch.pc = "page"
    /\ fetch.results.messages # << >>
    /\ LET msg  == Head(fetch.results.messages)
           rest == [fetch EXCEPT !.results.messages = Tail(@)]
       IN  \E outcome \in {"record", "get failed", "parse raised"} :
               fetch' = CASE outcome = "record" ->
                               [rest EXCEPT !.emails = Append(@, msg)]
                          [] outcome = "get failed" ->
                               [rest EXCEPT !.skipped = @ + 1]
                          [] outcome = "parse raised" ->
                               [rest EXCEPT !.pc = "raised", !.why = "parse error"]
    /\ UNCHANGED <<classifierVars, batchVars, dbVars, scanLocals, snapshot, schedVars,
                   procs>>

\* page_token = results.get('nextPageToken'); if not page_token: break
EndOfPage ==
    /\ fetch.pc = "page"
    /\ fetch.results.messages = << >>
    /\ LET token == fetch.results.nextPageToken
       IN  fetch' = IF token = 0
                    THEN [fetch EXCEPT !.page_token = token, !.pc = "returned",
                                       !.why = "no token"]
                    ELSE [fetch EXCEPT !.page_token = token, !.pc = "loop"]
    /\ UNCHANGED <<classifierVars, batchVars, dbVars, scanLocals, snapshot, schedVars,
                   procs>>

NextFetch == GetService \/ LeaveLoop \/ ListPage \/ FetchSingle \/ EndOfPage

SpecFetch == InitFetch /\ [][NextFetch]_vars

\* Every call fetch_emails makes returns or raises.
SpecFetchFair == SpecFetch /\ WF_vars(NextFetch)

---------------------------------------------------------------------------
(* Properties of classify_email, checked under Spec unless said otherwise. *)

Classified == pc = "done"

\* The record matches a rule of the table somewhere in subject+snippet+body.
MatchesAny(table, e) ==
    \E i \in DOMAIN table : SearchText(table[i][1], CombinedText(e))

\* C1: the category classify_email returns is one of applied, interview,
\* rejection, offer, follow_up, direct, other.
C1_CategoryClosure ==
    Classified =>
        result.category \in
            {"applied", "interview", "rejection", "offer", "follow_up", "direct", "other"}

\* A record that falls through every rule and gets the fallback category.
C1_Witness ==
    /\ Classified
    /\ ~ noise_sender(email) /\ ~ noise_subject(email)
    /\ email.body_text # {}
    /\ ranked = << >>
    /\ result.confidence = 50
    /\ result.category = "other"

\* C2: the confidence classify_email returns lies in [0,1], that is
\* between 0 and 100 hundredths, on every path.
C2_ConfidenceBounds ==
    Classified => result.confidence \in 0..100

\* A record matching two rules of one category (follow-up at 0.88 and 0.80).
C2_Witness ==
    /\ Classified
    /\ SearchText("FUP_2", CombinedText(email))
    /\ SearchText("FUP_7", CombinedText(email))
    /\ result.category = "follow_up"
    /\ result.confidence = 88

AutomatedSender(e) ==
    \E i \in DOMAIN NOREPLY_PATTERNS : re_search(NOREPLY_PATTERNS[i], SenderEmail(e))

\* One of the early returns of steps 1-3 is taken: noise, override sender,
\* interview-platform domain.
ShortCircuit123(e) ==
    \/ noise_sender(e) \/ noise_subject(e)
    \/ AnyMatch(DIRECT_OVERRIDE_SENDERS, {SenderOf(e), SenderEmail(e)})
    \/ SenderDomain(e) \in INTERVIEW_PLATFORM_DOMAINS

SubjectAppliedMatch(e) == AnyMatch(SUBJECT_APPLIED_PATTERNS, Subject(e))

Tier1Match(e) == AnyMatch(INTERVIEW_TIER1_PATTERNS, CombinedText(e))

Tier2Match(e) ==
    /\ AnyMatch(INTERVIEW_TIER2_KEYWORDS, Subject(e))
    /\ AnyMatch(INTERVIEW_ACTION_SIGNALS, CombinedText(e))

HighOfferMatch(e) ==
    \E i \in DOMAIN OFFER_PATTERNS :
        OFFER_PATTERNS[i][2] > 95 /\ SearchText(OFFER_PATTERNS[i][1], CombinedText(e))

\* C6 as claimed: every record with an automated sender whose text matches
\* a Tier-1 interview pattern and an applied pattern is classified applied.
C6_Original ==
    ( /\ Classified
      /\ AutomatedSender(email)
      /\ Tier1Match(email)
      /\ MatchesAny(APPLIED_PATTERNS, email) )
    => result.category = "applied"

\* C6 as amended: such a record, when none of the early returns of steps
\* 1-3 is taken, is never classified interview: it is classified offer
\* when an offer pattern weighted above 0.95 matches and the subject-line
\* applied override does not apply, and applied otherwise.
C6_AutomatedDowngrade ==
    ( /\ Classified
      /\ AutomatedSender(email)
      /\ Tier1Match(email)
      /\ MatchesAny(APPLIED_PATTERNS, email)
      /\ ~ ShortCircuit123(email) )
    => /\ result.category \in {"applied", "offer"}
       /\ result.category = "offer" <=>
              (HighOfferMatch(email) /\ ~ SubjectAppliedMatch(email))

\* An automated sender, a Tier-1 and an applied match in the body, tied
\* with a rejection match at 0.95: downgraded to the applied match's 0.92.
C6_Witness ==
    /\ Classified
    /\ AutomatedSender(email)
    /\ Tier1Match(email)
    /\ MatchesAny(APPLIED_PATTERNS, email)
    /\ MatchesAny(REJECTION_PATTERNS, email)
    /\ ~ ShortCircuit123(email)
    /\ ~ SubjectAppliedMatch(email)
    /\ ranked[1] = <<"interview", 95>>
    /\ result.category = "applied"
    /\ result.confidence = 92

\* A Tier-2 keyword occurs in the body and not in the subject, and no
\* action signal occurs anywhere.
KeywordOnlyInBody(e) ==
    /\ AnyMatch(INTERVIEW_TIER2_KEYWORDS, BodyText(e))
    /\ ~ AnyMatch(INTERVIEW_TIER2_KEYWORDS, Subject(e))
    /\ ~ AnyMatch(INTERVIEW_ACTION_SIGNALS, CombinedText(e))

\* C7 as claimed: a record whose interview/assessment keyword occurs only
\* in the body, with no action signal, from a sender matching no noise
\* pattern, is never classified interview.
C7_Original ==
    (Classified /\ KeywordOnlyInBody(email) /\ ~ noise_sender(email))
    => result.category # "interview"

\* C7 as amended: such a record is never classified interview provided no
\* Tier-1 pattern matches its text and its sender domain is not an
\* interview-platform domain.
C7_SubjectTierPrecision ==
    ( /\ Classified
      /\ KeywordOnlyInBody(email)
      /\ ~ noise_sender(email)
      /\ ~ Tier1Match(email)
      /\ SenderDomain(email) \notin INTERVIEW_PLATFORM_DOMAINS )
    => result.category # "interview"

\* "Online Assessment" in the body alone: no rule matches, the result is
\* the fallback.
C7_Witness ==
    /\ Classified
    /\ KeywordOnlyInBody(email)
    /\ ~ ShortCircuit123(email)
    /\ ~ Tier1Match(email)
    /\ ranked = << >>
    /\ result.category = "other"
    /\ result.confidence = 50

\* C8: for a record that is not noise, not from an override sender and not
\* from an interview-platform domain, a subject matching a definitive
\* application-received pattern gives applied at 0.98, whatever the body
\* matches and whether or not the sender is automated.
C8_SubjectAppliedOverride ==
    (Classified /\ ~ ShortCircuit123(email) /\ SubjectAppliedMatch(email))
    => (result.category = "applied" /\ result.confidence = 98)

\* An application-confirmation subject over a body that extends an offer,
\* from a sender that is not automated.
C8_Witness ==
    /\ Classified
    /\ ~ ShortCircuit123(email)
    /\ ~ AutomatedSender(email)
    /\ SubjectAppliedMatch(email)
    /\ \E i \in DOMAIN OFFER_PATTERNS :
           SearchText(OFFER_PATTERNS[i][1], BodyText(email))
    /\ result.category = "applied"
    /\ result.confidence = 98

\* The categories that hold the highest confidence of the ranking.
TopConfidence(r) == CHOOSE c \in {r[i][2] : i \in DOMAIN r} :
                        \A i \in DOMAIN r : r[i][2] <= c

TiedAtTop(r) == {r[i][1] : i \in {k \in DOMAIN r : r[k][2] = TopConfidence(r)}}

\* The first category of `order` that is in the set cats.
FirstOf(order, cats) ==
    order[CHOOSE i \in DOMAIN order :
              /\ order[i] \in cats
              /\ \A j \in 1..(i - 1) : order[j] \notin cats]

ClaimedTieOrder ==
    <<"rejection", "interview", "offer", "follow_up", "applied", "direct">>

CodeTieOrder ==
    <<"interview", "rejection", "offer", "follow_up", "applied", "direct">>

\* C9 as claimed: the provisional category is the category that comes
\* first in the order rejection, interview, offer, follow_up, applied,
\* direct among those sharing the highest confidence.
C9_Original ==
    (Classified /\ ranked # << >>) =>
        ranked[1][1] = FirstOf(ClaimedTieOrder, TiedAtTop(ranked))

\* C9 as amended: the provisional category and confidence are the highest
\* confidence of the ranking and the category that comes first in the
\* order interview, rejection, offer, follow_up, applied, direct among
\* those sharing it; they are what a sender that is not automated gets.
C9_TieBreak ==
    (Classified /\ ranked # << >>) =>
        /\ ranked[1][2] = TopConfidence(ranked)
        /\ ranked[1][1] = FirstOf(CodeTieOrder, TiedAtTop(ranked))
        /\ ~ AutomatedSender(email) =>
               /\ result.category = ranked[1][1]
               /\ result.confidence = ranked[1][2]

\* A Tier-1 interview match and a rejection match, both at 0.95.
C9_Witness ==
    /\ Classified
    /\ ~ AutomatedSender(email)
    /\ Len(ranked) >= 2
    /\ {"interview", "rejection"} \subseteq TiedAtTop(ranked)
    /\ TopConfidence(ranked) = 95
    /\ result.category = "interview"

\* C10: when no early return is taken, neither interview tier matches and
\* no rejection, offer, follow-up, applied or direct-outreach pattern
\* matches, the result is other at 0.50, whatever the sender domain is.
C10_NoMatchFallback ==
    ( /\ Classified
      /\ ~ ShortCircuit123(email)
      /\ ~ SubjectAppliedMatch(email)
      /\ ~ Tier1Match(email)
      /\ ~ Tier2Match(email)
      /\ ~ MatchesAny(REJECTION_PATTERNS, email)
      /\ ~ MatchesAny(OFFER_PATTERNS, email)
      /\ ~ MatchesAny(FOLLOWUP_PATTERNS, email)
      /\ ~ MatchesAny(APPLIED_PATTERNS, email)
      /\ ~ MatchesAny(DIRECT_OUTREACH_PATTERNS, email) )
    => (result.category = "other" /\ result.confidence = 50)

\* A plain report from a company address that is neither a job board, nor
\* a webmail, nor a no-reply address.
C10_Witness ==
    /\ Classified
    /\ email.sender_domain = "company.com"
    /\ ~ AutomatedSender(email)
    /\ email.sender_domain \notin JOB_BOARD_DOMAINS
    /\ "Here is our quarterly earnings report" \in email.body_text
    /\ ranked = << >>
    /\ result.category = "other"
    /\ result.confidence = 50

\* The sender display string or address matches the override list.
OverrideSenderMatch(e) ==
    AnyMatch(DIRECT_OVERRIDE_SENDERS, {SenderOf(e), SenderEmail(e)})

C12_DirectOnlyByRule ==
    (Classified /\ result.category = "direct") =>
        (OverrideSenderMatch(email) \/ MatchesAny(DIRECT_OUTREACH_PATTERNS, email))

\* A direct result that comes from a direct-outreach pattern, the sender
\* not being an override sender.
C12_Witness ==
    /\ Classified
    /\ ~ OverrideSenderMatch(email)
    /\ MatchesAny(DIRECT_OUTREACH_PATTERNS, email)
    /\ email.sender_domain = "company.com"
    /\ result.category = "direct"
    /\ result.confidence = 92

\* C17 as claimed: for every record and every resulting category the
\* company_name and job_title of the result are what the metadata
\* extractors return for the record.
C17_Original ==
    Classified =>
        /\ result.company_name = _extract_company_name(email)
        /\ result.job_title = _extract_job_title(Subject(email), BodyText(email))

\* C17 as amended: the same for every record that is not noise (sender
\* address matching no noise sender pattern, subject matching no noise
\* subject pattern), whatever its category, other included.
C17_MetadataAlwaysRuns ==
    (Classified /\ ~ noise_sender(email) /\ ~ noise_subject(email)) =>
        /\ result.company_name = _extract_company_name(email)
        /\ result.job_title = _extract_job_title(Subject(email), BodyText(email))

\* An unmatched record, classified other by the fallback, that carries the
\* company name taken from its sender name.
C17_Witness ==
    /\ Classified
    /\ ~ noise_sender(email) /\ ~ noise_subject(email)
    /\ result.category = "other"
    /\ result.confidence = 50
    /\ result.company_name = "Company"

\* The record passes steps 1-4: no early return is taken.
PassesSteps1to4(e) == ~ ShortCircuit123(e) /\ ~ SubjectAppliedMatch(e)

\* The interview entries of a ranking.
InterviewEntries(r) == {r[i] : i \in {k \in DOMAIN r : r[k][1] = "interview"}}

\* C19: for a record that passes steps 1-4, the ranking holds the interview
\* candidate (interview, 0.95) when a Tier-1 pattern matches; when none
\* does, it holds (interview, 0.88) exactly when a Tier-2 keyword occurs in
\* the subject and an action signal occurs in subject+snippet+body; in
\* every other case it holds no interview candidate.
C19_TwoTierDetection ==
    (Classified /\ PassesSteps1to4(email)) =>
        InterviewEntries(ranked) =
            IF Tier1Match(email) THEN {<<"interview", 95>>}
            ELSE IF /\ AnyMatch(INTERVIEW_TIER2_KEYWORDS, Subject(email))
                    /\ AnyMatch(INTERVIEW_ACTION_SIGNALS, CombinedText(email))
                 THEN {<<"interview", 88>>}
                 ELSE {}

\* A Tier-2 detection: the keyword in the subject, the action signal in
\* the body, no Tier-1 match.
C19_Witness ==
    /\ Classified
    /\ PassesSteps1to4(email)
    /\ ~ Tier1Match(email)
    /\ AnyMatch(INTERVIEW_TIER2_KEYWORDS, Subject(email))
    /\ AnyMatch(INTERVIEW_ACTION_SIGNALS, BodyText(email))
    /\ ranked = << <<"interview", 88>> >>
    /\ result.category = "interview"

\* The weights of the rules of a table that match the record.
WeightsOf(table, e) ==
    {table[i][2] : i \in {k \in DOMAIN table : SearchText(table[k][1], CombinedText(e))}}

\* The weight of the interview candidate, if there is one.
InterviewWeights(e) ==
    IF Tier1Match(e) THEN {95} ELSE IF Tier2Match(e) THEN {88} ELSE {}

CategoryWeights(e) ==
    [c \in Categories \ {"other"} |->
        CASE c = "interview" -> InterviewWeights(e)
          [] c = "rejection" -> WeightsOf(REJECTION_PATTERNS, e)
          [] c = "offer"     -> WeightsOf(OFFER_PATTERNS, e)
          [] c = "follow_up" -> WeightsOf(FOLLOWUP_PATTERNS, e)
          [] c = "applied"   -> WeightsOf(APPLIED_PATTERNS, e)
          [] c = "direct"    -> WeightsOf(DIRECT_OUTREACH_PATTERNS, e)]

AllWeights(e) == UNION {CategoryWeights(e)[c] : c \in Categories \ {"other"}}

MaxOf(S) == CHOOSE m \in S : \A x \in S : x <= m

Reverse(s) == [i \in DOMAIN s |-> s[Len(s) + 1 - i]]

Rotate(s) == IF s = << >> THEN s ELSE Append(Tail(s), Head(s))

\* C20: for a record that passes steps 1-4, matches some rule and is not
\* subject to the automated-sender downgrade, the returned confidence is
\* the maximum weight over the matching rules of all categories (the
\* interview candidate counted at 0.95 or 0.88) and the returned category
\* holds that maximum; the best confidence of a category is the same for
\* the category's rule list reversed or rotated.
C20_AggregateAndRank ==
    ( /\ Classified
      /\ PassesSteps1to4(email)
      /\ AllWeights(email) # {}
      /\ ~ (AutomatedSender(email) /\ ranked[1][1] = "interview") )
    => /\ result.confidence = MaxOf(AllWeights(email))
       /\ result.category \in Categories \ {"other"}
       /\ result.confidence \in CategoryWeights(email)[result.category]
       /\ \A k \in DOMAIN CategoryTables :
              LET table == CategoryTables[k][2]
                  T     == CombinedText(email)
              IN  /\ BestConfidence(Reverse(table), Len(table), T)
                         = BestConfidence(table, Len(table), T)
                  /\ BestConfidence(Rotate(table), Len(table), T)
                         = BestConfidence(table, Len(table), T)

\* Two follow-up rules of different weight match (0.88 and 0.80) next to a
\* rejection rule at 0.95: the result is rejection at 0.95.
C20_Witness ==
    /\ Classified
    /\ PassesSteps1to4(email)
    /\ Cardinality(WeightsOf(FOLLOWUP_PATTERNS, email)) >= 2
    /\ WeightsOf(REJECTION_PATTERNS, email) = {95}
    /\ Len(ranked) = 2
    /\ result.category = "rejection"
    /\ result.confidence = 95

\* C21: for a record that reaches the ranking with at least one candidate,
\* when the top-ranked category is interview and the sender is automated
\* the result is applied, with the weight of the best matching applied
\* rule if an applied rule matched and 0.75 otherwise; in every other case
\* the result is the top-ranked category with its confidence.
C21_DowngradeValues ==
    (Classified /\ PassesSteps1to4(email) /\ ranked # << >>) =>
        IF AutomatedSender(email) /\ ranked[1][1] = "interview"
        THEN /\ result.category = "applied"
             /\ result.confidence =
                    IF WeightsOf(APPLIED_PATTERNS, email) # {}
                    THEN MaxOf(WeightsOf(APPLIED_PATTERNS, email))
                    ELSE 75
        ELSE /\ result.category = ranked[1][1]
             /\ result.confidence = ranked[1][2]

\* An automated sender whose only candidate is the Tier-1 interview match:
\* downgraded to applied at 0.75.
C21_Witness ==
    /\ Classified
    /\ PassesSteps1to4(email)
    /\ AutomatedSender(email)
    /\ ranked = << <<"interview", 95>> >>
    /\ WeightsOf(APPLIED_PATTERNS, email) = {}
    /\ result.category = "applied"
    /\ result.confidence = 75

\* C24: a record with an automated sender is classified interview only by
\* the interview-platform domain override, at 0.97; when it reaches the
\* ranking it is never classified interview, whatever matches and ties
\* the ranking holds.
C24_AutomatedNeverInterview ==
    (Classified /\ AutomatedSender(email)) =>
        /\ result.category = "interview" =>
               /\ SenderDomain(email) \in INTERVIEW_PLATFORM_DOMAINS
               /\ result.confidence = 97
        /\ PassesSteps1to4(email) => result.category # "interview"

\* An automated platform sender with a Tier-1 match in the text:
\* interview at 0.97 by the override.
C24_Witness ==
    /\ Classified
    /\ AutomatedSender(email)
    /\ SenderDomain(email) \in INTERVIEW_PLATFORM_DOMAINS
    /\ Tier1Match(email)
    /\ result.category = "interview"
    /\ result.confidence = 97

---------------------------------------------------------------------------
(* Claims about the metadata extractors, checked under SpecMeta. *)

Extracted == pc = "extracted"

\* re.search(pattern j, text) on subject + " " + body: the capture of the
\* leftmost match, trimmed and whitespace-collapsed, "" for no match.
TitleCapture(j, e) ==
    LET inSubject == FirstCapture(TitleCaptureTable, j, Subject(e))
    IN  IF inSubject # "" THEN inSubject
        ELSE FirstCapture(TitleCaptureTable, j, BodyText(e))

TitlePatterns == 1..5

MatchingTitlePatterns(e) == {j \in TitlePatterns : TitleCapture(j, e) # ""}

AcceptableLength(t) == 3 < StrLen(t) /\ StrLen(t) < 80

AcceptableTitlePatterns(e) ==
    {j \in MatchingTitlePatterns(e) : AcceptableLength(TitleCapture(j, e))}

Least(S) == CHOOSE j \in S : \A k \in S : j <= k

\* C22 as claimed: the title is the capture of the first pattern that
\* matches when its length is strictly between 3 and 80, and the empty
\* string otherwise.
C22_Original ==
    Extracted =>
        result.job_title =
            IF MatchingTitlePatterns(email) = {} THEN ""
            ELSE LET first == TitleCapture(Least(MatchingTitlePatterns(email)), email)
                 IN  IF AcceptableLength(first) THEN first ELSE ""

\* C22 as amended: the title is the capture of the first pattern, in list
\* order, whose capture has a length strictly between 3 and 80, and the
\* empty string when no pattern has such a capture; every returned title
\* is empty or has a length in 4..79.
C22_TitleFirstAcceptable ==
    Extracted =>
        /\ result.job_title =
               IF AcceptableTitlePatterns(email) = {} THEN ""
               ELSE TitleCapture(Least(AcceptableTitlePatterns(email)), email)
        /\ result.job_title = "" \/ StrLen(result.job_title) \in 4..79

\* The first pattern captures a title of three characters, the third one
\* a title of twelve: the latter is returned.
C22_Witness ==
    /\ Extracted
    /\ StrLen(TitleCapture(1, email)) = 3
    /\ TitleCapture(3, email) = "data analyst"
    /\ result.job_title = "data analyst"

\* The display name gives the company: after the suffixes are removed it
\* is longer than one character and not a no-reply placeholder.
NameGivesCompany(e) ==
    LET name == StripSuffixTable[e.sender_name]
    IN  /\ e.sender_name # ""
        /\ StrLen(name) > 1
        /\ Lower(name) \notin NOREPLY_PLACEHOLDERS

\* The job-board test of the sender trust evaluator: a suffix match.
IsJobBoardDomain(d) == \E j \in JOB_BOARD_DOMAINS : EndsWith(d, j)

\* What the subject patterns give: the first pattern's capture, else the
\* second one's, else the empty string.
SubjectCompany(e) ==
    LET byPattern1 == FirstCapture(CompanyCaptureTable, 1, e.subject)
        byPattern2 == FirstCapture(CompanyCaptureTable, 2, e.subject)
    IN  IF byPattern1 # "" THEN byPattern1 ELSE byPattern2

\* C23: when the display name gives nothing, the company name is derived
\* from the sender domain unless the domain suffix-matches a job-board
\* domain or is one of the webmail domains of the direct-company
\* predicate; for such a domain the subject patterns decide, and the
\* result is empty when none matches.
C23_DomainFallback ==
    (Extracted /\ ~ NameGivesCompany(email)) =>
        result.company_name =
            IF \/ IsJobBoardDomain(email.sender_domain)
               \/ email.sender_domain \in PERSONAL_DOMAINS_DIRECT
            THEN SubjectCompany(email)
            ELSE DomainLabelTable[email.sender_domain]

\* The record with every absent or None string field set to the empty
\* string.
AsEmptyStrings(e) ==
    [k \in DOMAIN e \cup StringFields |->
        IF k \in StringFields /\ (k \notin DOMAIN e \/ IsNull(e, k))
        THEN (IF k \in TextFields THEN {} ELSE "")
        ELSE e[k]]

\* C14, checked under SpecNull: classify_email never raises.  For every
\* record whose string fields are each present, absent or None the call
\* returns a valid Classification Result, the one of the record with the
\* absent and None fields set to the empty string.
C14_NeverRaises ==
    pc \in {"done", "raised"} =>
        /\ pc = "done"
        /\ result.category \in Categories
        /\ result.confidence \in 0..100
        /\ result = classify_email(AsEmptyStrings(email))

---------------------------------------------------------------------------
(* Properties of classify_emails, checked under SpecBatch. *)

\* The fields of a record that classify_email returns.
ClassificationOf(r) ==
    [category   |-> r.category,   company_name |-> r.company_name,
     confidence |-> r.confidence, job_title    |-> r.job_title]

\* Two fetched records that are the same message up to the identifier.
SameMessage(a, b) ==
    [k \in DOMAIN a \ {"id"} |-> a[k]] = [k \in DOMAIN b \ {"id"} |-> b[k]]

ResultFields == {"category", "confidence", "company_name", "job_title"}

\* The list the last call of classify_emails was given.
InputOfLastCall == IF bpc = "reclassified" THEN previous ELSE orig

\* C13: classify_emails never drops, adds or reorders records.  The output
\* is as long as the input, and its i-th record is the i-th input record
\* with category, confidence, company_name and job_title set to
\* classify_email of that record and every other field unchanged.
C13_BatchFrame ==
    bpc \in {"classified", "reclassified"} =>
        /\ Len(classified) = Len(InputOfLastCall)
        /\ \A i \in DOMAIN InputOfLastCall :
               LET in  == InputOfLastCall[i]
                   out == classified[i]
               IN  /\ DOMAIN out = DOMAIN in \cup ResultFields
                   /\ ClassificationOf(out) = classify_email(in)
                   /\ \A k \in DOMAIN in \ ResultFields : out[k] = in[k]

\* A batch of three records classified rejection, other and interview, in
\* this order.
C13_Witness ==
    /\ bpc = "classified"
    /\ Len(orig) = 3
    /\ Len(classified) = 3
    /\ classified[1].category = "rejection"
    /\ classified[2].category = "other"
    /\ classified[3].category = "interview"
    /\ \A i \in 1..3 : classified[i].id = orig[i].id

\* C18: re-classification is idempotent.  classify_emails applied to its
\* own output returns that output, and classify_email of an augmented
\* record is classify_email of the record as fetched.
C18_Idempotent ==
    bpc = "reclassified" =>
        /\ classified = previous
        /\ \A i \in DOMAIN classified :
               /\ classify_email(previous[i]) = classify_email(orig[i])
               /\ ClassificationOf(classified[i]) = ClassificationOf(previous[i])

\* A classified batch, its records carrying a rejection and a downgraded
\* interview, classified again.
C18_Witness ==
    /\ bpc = "reclassified"
    /\ Len(classified) >= 2
    /\ \A i \in DOMAIN previous : ResultFields \subseteq DOMAIN previous[i]
    /\ \E i \in DOMAIN classified : classified[i].category = "rejection"
    /\ \E i \in DOMAIN classified :
           classified[i].category = "applied" /\ classified[i].confidence = 75


---------------------------------------------------------------------------
(* Properties of database.py, checked under SpecDb. *)

KeptColumns ==
    {"id", "subject", "sender", "sender_domain", "date", "snippet",
     "body_preview", "is_read", "created_at"}

\* C15: upsert frame.  In every step that is an upsert_email call on an id
\* the table already holds, the row of that id gets the category,
\* confidence, company_name and job_title of the call (the defaults for
\* the ones the record lacks) and keeps its id, subject, sender,
\* sender_domain, date, snippet, body_preview, is_read and created_at;
\* the table holds the same ids, and every other row is unchanged.
C15_UpsertFrame ==
    [][ (dbop'.op = "upsert_email" /\ dbop'.id \in DOMAIN db) =>
            LET id == dbop'.id
                e  == dbop'.data
            IN  /\ DOMAIN db' = DOMAIN db
                /\ db'[id].category = Get(e, "category", "unknown")
                /\ db'[id].confidence = Get(e, "confidence", 0)
                /\ db'[id].company_name = Get(e, "company_name", "")
                /\ db'[id].job_title = Get(e, "job_title", "")
                /\ \A c \in KeptColumns : db'[id][c] = db[id][c]
                /\ \A other \in DOMAIN db \ {id} : db'[other] = db[other]
      ]_vars

\* An upsert on a row that exists, has been marked read and was created
\* earlier, by a record whose subject differs from the stored one, with
\* another row in the table.
C15_Witness ==
    /\ dbop.op = "upsert_email"
    /\ dbop.existed
    /\ DOMAIN db = DbIds
    /\ db[dbop.id].is_read = 1
    /\ db[dbop.id].created_at < now - 1
    /\ db[dbop.id].subject # dbop.data.subject
    /\ db[dbop.id].category = "rejection"
    /\ dbop.data.category = "rejection"

---------------------------------------------------------------------------
(* Properties of the scans of app.py, checked under SpecScan. *)

FailureReports ==
    {"401 Not authenticated", "500 Scan failed", "Skipped (not authenticated)", "Error"}

\* The rows the table held when the scan started are in the table as
\* they were.
PersistedRowsKept ==
    \A id \in DOMAIN snapshot : id \in DOMAIN db /\ db[id] = snapshot[id]

\* C16: a scan, manual or scheduled, during which an authentication,
\* fetch, classification or persistence error occurred ends by reporting a
\* failure and with every row persisted before the scan as it was.
C16_FailedScan ==
    (spc \in {"done", "failed"} /\ erred # {}) =>
        (report \in FailureReports /\ PersistedRowsKept)

\* C25: after any sequence of manual and scheduled scans every row of the
\* table has one of the seven categories and a confidence in [0,1]; the
\* defaults of upsert_email (category unknown, confidence 0.0) are never
\* stored.
C25_StoredRowsClassified ==
    \A id \in DOMAIN db :
        /\ db[id].category \in Categories
        /\ db[id].confidence \in 0..100
        /\ db[id].category # "unknown"

\* Two scans have run and both messages are stored: the rejection at 0.95
\* and the automated sender's interview notice, downgraded to applied.
C25_Witness ==
    /\ scans = 2
    /\ spc = "done"
    /\ DOMAIN db = {"m1", "m2"}
    /\ db["m1"].category = "rejection"
    /\ db["m2"].category = "applied"
    /\ db["m2"].confidence = 75

\* The scan was refused because the user is not authenticated.
Refused == spc = "failed" /\ "authentication" \in erred

\* C28: a scan of a user who is not authenticated changes nothing in the
\* table: the manual scan answers 401 and the auto-scan records 'Skipped
\* (not authenticated)' as last_result; neither fetches, classifies or
\* upserts anything, and last_scan keeps its value through the scan.
C28_NotAuthenticated ==
    /\ [](Refused =>
            /\ db = snapshot
            /\ raw = << >>
            /\ idx = 0
            /\ report = IF kind = "manual" THEN "401 Not authenticated"
                        ELSE "Skipped (not authenticated)"
            /\ kind = "auto" =>
                   auto_scan_status.last_result = "Skipped (not authenticated)")
    /\ [][(spc' = "auth" \/ (spc = "auth" /\ spc' = "failed")) =>
            /\ db' = db
            /\ dbop' = dbop
            /\ auto_scan_status'.last_scan = auto_scan_status.last_scan]_vars

\* An auto-scan is skipped after an earlier auto-scan stored both messages:
\* the table and the earlier last_scan are kept.
C28_Witness ==
    /\ Refused
    /\ kind = "auto"
    /\ DOMAIN db = {"m1", "m2"}
    /\ auto_scan_status.last_result = "Skipped (not authenticated)"
    /\ auto_scan_status.last_scan = 1
    /\ now = 2

---------------------------------------------------------------------------
(* The scheduler, checked under SpecSchedFair. *)

\* _run_auto_scan has returned.
RunLeft == kind = "auto" /\ spc \in {"done", "failed"}

\* C26: once the scheduler is started, every run of the auto-scan, whether
\* it scanned, was skipped or raised, ends with is_running false and
\* exactly one Timer pending; at most one Timer is pending at any time,
\* and the runs recur for ever.
C26_AutoScanRecurs ==
    /\ [](RunLeft => (~ auto_scan_status.is_running /\ timers = 1))
    /\ [](timers \in {0, 1})
    /\ []<>(auto_scan_status.is_running)
    /\ []<>RunLeft

\* A run that raised after it stored a message: is_running is cleared and
\* the next run is scheduled.
C26_Witness ==
    /\ RunLeft
    /\ auto_scan_status.last_result = "Error"
    /\ "persistence" \in erred
    /\ db # << >>
    /\ ~ auto_scan_status.is_running
    /\ timers = 1

---------------------------------------------------------------------------
(* Two scans at once, checked under SpecConc. *)

BothDone == \A p \in Procs : procs[p].pc = "done"

\* The upsert loop of one scan, run without interruption from time t on.
RECURSIVE UpsertAll(_, _, _)
UpsertAll(table, list, t) ==
    IF list = << >> THEN table
    ELSE UpsertAll(upsert_email(table, Head(list), t), Tail(list), t + 1)

\* The table after the two scans ran one after the other.
OneAfterTheOther ==
    LET list == procs["manual"].classified
    IN  UpsertAll(UpsertAll(snapshot, list, 1), list, 1 + Len(list))

\* The id, the content columns and the classification columns of a row.
ScanColumns ==
    {"id", "subject", "sender", "sender_domain", "date", "snippet", "body_preview",
     "category", "confidence", "company_name", "job_title"}

\* C27: when a manual scan and an auto-scan have interleaved their upserts
\* over the same fetched messages, the table holds one row for each
\* fetched message id (and the rows it held before), and the id, content
\* and classification columns of every row are those of the table the two
\* scans give when run one after the other.
C27_InterleavedScans ==
    (BothDone /\ procs["manual"].fetched = procs["auto"].fetched) =>
        /\ DOMAIN db = DOMAIN snapshot
                         \cup {procs["manual"].fetched[i].id :
                                   i \in DOMAIN procs["manual"].fetched}
        /\ DOMAIN db = DOMAIN OneAfterTheOther
        /\ \A id \in DOMAIN db : \A c \in ScanColumns :
               db[id][c] = OneAfterTheOther[id][c]

\* Both messages were fetched into an empty table and the upserts
\* alternated: the second message was inserted two statements after the
\* first one, not one as in a sequential run.
C27_Witness ==
    /\ BothDone
    /\ procs["manual"].fetched = procs["auto"].fetched
    /\ snapshot = << >>
    /\ DOMAIN db = {"m1", "m2"}
    /\ db["m2"].created_at = db["m1"].created_at + 2
    /\ db["m2"].created_at # OneAfterTheOther["m2"].created_at
    /\ db["m2"].category = "applied"

---------------------------------------------------------------------------
(* fetch_emails, checked under SpecFetchFair. *)

Returned == fetch.pc = "returned"

\* C29: against a provider that returns at most maxResults messages per
\* page and a finite chain of page tokens, fetch_emails terminates and
\* returns at most max_results records; it leaves its loop on an empty
\* page, a missing next-page token, a listing error or when max_results
\* records are collected; a message whose get fails is skipped and the
\* fetch goes on.
C29_FetchTerminates ==
    /\ <>(fetch.pc \in {"returned", "raised"})
    /\ [](Returned =>
            /\ Len(fetch.emails) <= fetch.max_results
            /\ fetch.why \in {"no service", "empty page", "no token", "list error",
                              "collected"}
            /\ fetch.why = "collected" => Len(fetch.emails) = fetch.max_results
            /\ fetch.results.messages = << >>)
    /\ [](Len(fetch.emails) + fetch.skipped + Len(fetch.results.messages)
              = fetch.listed \/ fetch.pc = "raised")
    /\ [][fetch'.skipped > fetch.skipped =>
              (fetch'.pc = "page" /\ fetch'.emails = fetch.emails)]_vars

\* Two pages were listed, one message of the first page was skipped after
\* a failed get, and the call returned max_results records.
C29_Witness ==
    /\ Returned
    /\ fetch.why = "collected"
    /\ fetch.pages = 2
    /\ fetch.skipped = 1
    /\ fetch.max_results = 3
    /\ fetch.emails = <<1, 3, 4>>

=============================================================================
